---- MODULE Spec2Model ----
(***************************************************************************)
(* A model of the ocis-overlay passthrough filesystem: the FS node         *)
(* registry (filesystem.go), the in-memory extended-attribute store, the   *)
(* Node handlers and the Handle set of a Node.                             *)
(*                                                                         *)
(* Paths are sequences of name components: "." is <<>> and                 *)
(* filepath.Join(p, name) is Append(p, name).  Attribute names are         *)
(* naturals whose order stands for the byte order sort.Strings uses.       *)
(***************************************************************************)
EXTENDS Integers, Sequences, FiniteSets, TLC

\* ----------------------------------------------------------------- bounds
MaxNodes == 3
MaxHandles == 2
MaxCalls == 6
MaxListNames == 4
MaxSetup == 2
MaxXattrSetup == 3
MaxDirCalls == 7
MaxDataCalls == 5
MaxHandleSetup == 2

\* -------------------------------------------------------------- universes
Names == {"a", "b"}
rootPath == <<>>
Paths == {rootPath} \cup {<<x>> : x \in Names} \cup {<<x, y>> : x \in Names, y \in Names}
\* the Go string "" that Remove passes as moveAllxattrs' target
EmptyPath == <<"">>
\* where an open file is once it has no name
Unlinked == <<"-">>
NodeIds == 1..MaxNodes
HandleIds == 1..MaxHandles
XNames == {1, 2}
XValues == {1, 2}
DataValues == {1, 2}

VARIABLES
    disk,           \* the underlying filesystem: path -> "none" | "file" | "dir"
    nodes,          \* FS.nodes: realPath -> sequence of nodes (DOMAIN = keys present)
    realPath,       \* Node.realPath: a sequence over the nodes constructed so far
    isDir,          \* Node.isDir, likewise
    forgotten,      \* nodes the protocol layer has sent Forget for
    xattrs,         \* FS.xattrs: path -> [nil, kv]; an absent key reads as nil
    inMemoryXattr,  \* FS.inMemoryXattr
    flushers,       \* Node.flushers: node -> set of handles (nil reads as empty)
    handles,        \* the Handles constructed so far, see NewHandle
    data,           \* the bytes of each regular file of the underlying filesystem
    last,           \* the last handler call and what it returned
    budget,         \* number of handler calls the run may still make
    paging,         \* a client paging through Listxattr: [acc: names so far, done]
    th,             \* the handler calls in flight: goroutine -> its position and locals
    nlock,          \* FS.nlock: "free" or the goroutine holding it
    rplock,         \* Node.rpLock: goroutine -> the node whose path lock it holds (0: none)
    xlock           \* FS.xlock: "free" or the goroutine holding it

vars == <<disk, nodes, realPath, isDir, forgotten, xattrs,
          inMemoryXattr, flushers, handles, data, last, budget, paging,
          th, nlock, rplock, xlock>>

\* ------------------------------------------------------------------ paths
Join(p, name) == Append(p, name)
Parent(p) == SubSeq(p, 1, Len(p) - 1)
IsPrefix(p, q) == Len(p) <= Len(q) /\ SubSeq(q, 1, Len(p)) = p
Rest(p, q) == SubSeq(q, Len(p) + 1, Len(q))
Range(s) == {s[i] : i \in 1..Len(s)}

\* ------------------------------------------------- the underlying filesystem
Exists(d, p) == p \in Paths /\ d[p] # "none"
ParentIsDir(d, p) == Len(p) = 0 \/ d[Parent(p)] = "dir"
MissingErr(d, p) == IF Len(p) > 0 /\ d[Parent(p)] = "file" THEN "ENOTDIR" ELSE "ENOENT"
HasChildren(d, p) == \E q \in Paths : q # p /\ IsPrefix(p, q) /\ d[q] # "none"

\* os.Stat(p)
StatErr(d, p) == IF d[p] # "none" THEN "nil" ELSE MissingErr(d, p)

\* os.Mkdir(p)
MkdirErr(d, p) ==
    IF d[p] # "none" THEN "EEXIST"
    ELSE IF ~ParentIsDir(d, p) THEN MissingErr(d, p)
    ELSE "nil"

\* os.OpenFile(p, O_CREATE|..., mode) of Create
CreateErr(d, p) ==
    IF d[p] = "dir" THEN "EISDIR"
    ELSE IF ~ParentIsDir(d, p) THEN MissingErr(d, p)
    ELSE "nil"

\* os.Remove(p)
RemoveErr(d, p) ==
    IF d[p] = "none" THEN MissingErr(d, p)
    ELSE IF HasChildren(d, p) THEN "ENOTEMPTY"
    ELSE "nil"

\* os.Rename(op, np): an existing directory is never replaced, a file renamed
\* onto itself succeeds and changes nothing
RenameErr(d, op, np) ==
    IF d[np] = "dir" THEN (IF d[op] = "none" THEN MissingErr(d, op) ELSE "EEXIST")
    ELSE IF d[op] = "none" THEN MissingErr(d, op)
    ELSE IF ~ParentIsDir(d, np) THEN MissingErr(d, np)
    ELSE IF op # np /\ IsPrefix(op, np) THEN "EINVAL"
    ELSE IF d[op] = "dir" /\ d[np] = "file" THEN "ENOTDIR"
    ELSE "nil"

\* the renamed tree stays within Paths
RenameFits(d, op, np) ==
    \A q \in Paths : (IsPrefix(op, q) /\ d[q] # "none") => (np \o Rest(op, q)) \in Paths

DiskRename(d, op, np) ==
    IF op = np THEN d
    ELSE [q \in Paths |->
            IF IsPrefix(np, q)
                THEN (IF (op \o Rest(np, q)) \in Paths THEN d[op \o Rest(np, q)] ELSE "none")
            ELSE IF IsPrefix(op, q) THEN "none"
            ELSE d[q]]

\* the bytes of the files after os.Rename(op, np): they go with their file
DataRename(c, op, np) ==
    IF op = np THEN c
    ELSE [q \in Paths |->
            IF IsPrefix(np, q)
                THEN (IF (op \o Rest(np, q)) \in Paths THEN c[op \o Rest(np, q)] ELSE 0)
            ELSE IF IsPrefix(op, q) THEN 0
            ELSE c[q]]

\* An open *os.File refers to the file it opened, whatever the file's name
\* becomes: at is the path where that file is now, Unlinked once the file
\* has no name any more (removed, or replaced by a rename).
FileAfterRename(at, op, np) ==
    IF op = np \/ at = Unlinked THEN at
    ELSE IF IsPrefix(op, at) THEN np \o Rest(op, at)
    ELSE IF IsPrefix(np, at) THEN Unlinked
    ELSE at
FollowRename(hs, op, np) ==
    [i \in 1..Len(hs) |-> [hs[i] EXCEPT !.at = FileAfterRename(@, op, np)]]
FollowRemove(hs, p) ==
    [i \in 1..Len(hs) |-> [hs[i] EXCEPT !.at = IF @ = p THEN Unlinked ELSE @]]

\* --------------------------------------------------------- error translation
\* (mutant) an error of no known kind is dropped
translateErrorDropsOthers(err) ==
    CASE err \in {"ENOENT"} -> "fuse.ENOENT"
      [] err \in {"EEXIST", "ENOTEMPTY"} -> "fuse.EEXIST"
      [] err \in {"EACCES", "EPERM"} -> "fuse.EPERM"
      [] OTHER -> "nil"

\* os.IsNotExist(err), os.IsExist(err) and os.IsPermission(err) decide by the
\* errno: ENOENT; EEXIST or ENOTEMPTY; EACCES or EPERM
translateError(err) ==
    CASE err \in {"ENOENT"} -> "fuse.ENOENT"
      [] err \in {"EEXIST", "ENOTEMPTY"} -> "fuse.EEXIST"
      [] err \in {"EACCES", "EPERM"} -> "fuse.EPERM"
      [] OTHER -> err

\* ----------------------------------------------------------- the registry
Bucket(reg, p) == IF p \in DOMAIN reg THEN reg[p] ELSE <<>>
SetKey(reg, p, s) == [q \in (DOMAIN reg) \cup {p} |-> IF q = p THEN s ELSE reg[q]]
DeleteKey(reg, p) == [q \in (DOMAIN reg) \ {p} |-> reg[q]]

\* (mutant) the node is not registered
newNodeSkips(reg, rp, n) == reg

\* FS.newNode: the map after appending n under rp
newNode(reg, rp, n) == SetKey(reg, rp, Append(Bucket(reg, rp), n))

\* (mutant) the old key is not deleted
nodeRenamedMapKeepsOld(reg, oldPath, newPath) ==
    SetKey(reg, newPath, Bucket(reg, newPath) \o Bucket(reg, oldPath))

\* FS.nodeRenamed, the map part (lines 53-54)
nodeRenamedMap(reg, oldPath, newPath) ==
    DeleteKey(SetKey(reg, newPath, Bucket(reg, newPath) \o Bucket(reg, oldPath)), oldPath)

\* (mutant) the loop is left out
nodeRenamedPathsSkipped(rp, reg2, newPath) == rp

\* (mutant) the loop stops after the first node of the list
nodeRenamedPathsFirstOnly(rp, reg2, newPath) ==
    [n \in DOMAIN rp |->
        IF Bucket(reg2, newPath) # <<>> /\ n = Bucket(reg2, newPath)[1] THEN newPath ELSE rp[n]]

\* FS.nodeRenamed, the loop (lines 55-57) over the map as it is after line 54
nodeRenamedPaths(rp, reg2, newPath) ==
    [n \in DOMAIN rp |-> IF n \in Range(Bucket(reg2, newPath)) THEN newPath ELSE rp[n]]

\* FS.forgetNode
IndexOf(s, n) == IF n \in Range(s) THEN CHOOSE i \in 1..Len(s) :
                        s[i] = n /\ \A j \in 1..(i - 1) : s[j] # n
                 ELSE 0
RemoveAt(s, i) == SubSeq(s, 1, i - 1) \o SubSeq(s, i + 1, Len(s))
\* (mutant) the loop never finds the node
forgetNodeNeverFinds(reg, key, n) ==
    IF key \notin DOMAIN reg THEN reg
    ELSE IF Len(reg[key]) = 0 THEN DeleteKey(reg, key) ELSE reg

forgetNode(reg, key, n) ==
    IF key \notin DOMAIN reg THEN reg
    ELSE LET found == IndexOf(reg[key], n)
             rest == IF found > 0 THEN RemoveAt(reg[key], found) ELSE reg[key]
         IN  IF Len(rest) = 0 THEN DeleteKey(reg, key) ELSE SetKey(reg, key, rest)

\* ------------------------------------------------------------ the xattr store
NilMap == [nil |-> TRUE, kv |-> {}]
EmptyMap == [nil |-> FALSE, kv |-> {}]
HasName(m, name) == \E e \in m.kv : e[1] = name
ValueOf(m, name) == (CHOOSE e \in m.kv : e[1] = name)[2]
PutName(m, name, v) == [nil |-> FALSE, kv |-> {e \in m.kv : e[1] # name} \cup {<<name, v>>}]
DelName(m, name) == [nil |-> FALSE, kv |-> {e \in m.kv : e[1] # name}]

\* (mutant) nothing is cleared when there is no target
moveAllxattrsKeepsWithoutTarget(x, from, to) ==
    IF ~x[from].nil /\ to # EmptyPath
        THEN [x EXCEPT ![to] = x[from], ![from] = NilMap]
        ELSE x

\* FS.moveAllxattrs
moveAllxattrs(x, from, to) ==
    IF ~x[from].nil
        THEN LET x1 == IF to # EmptyPath THEN [x EXCEPT ![to] = x[from]] ELSE x
             IN  [x1 EXCEPT ![from] = NilMap]
        ELSE x

\* Node.Getxattr's lookup (lines 536-544): <<error, value>>
GetxattrAt(x, p, name) ==
    IF ~x[p].nil /\ HasName(x[p], name) THEN <<"nil", ValueOf(x[p], name)>>
    ELSE <<"fuse.ENODATA", 0>>

\* sort.Strings over the names of a map
RECURSIVE SortNames(_)
SortNames(S) ==
    IF S = {} THEN <<>>
    ELSE LET m == CHOOSE a \in S : \A b \in S : a <= b
         IN  <<m>> \o SortNames(S \ {m})

\* (mutant) the slice starts one name late
ListxattrAtSkipsOne(m, position, size) ==
    IF m.nil THEN <<>>
    ELSE LET names == SortNames({e[1] : e \in m.kv})
         IN  IF position >= Len(names) THEN <<>>
             ELSE LET tl == SubSeq(names, position + 2, Len(names))
                      s == IF size = 0 \/ size > Len(tl) THEN Len(tl) ELSE size
                  IN  SubSeq(tl, 1, s)

\* Node.Listxattr's page (lines 563-582): the names appended to the response
ListxattrAt(m, position, size) ==
    IF m.nil THEN <<>>
    ELSE LET names == SortNames({e[1] : e \in m.kv})
         IN  IF position >= Len(names) THEN <<>>
             ELSE LET tl == SubSeq(names, position + 1, Len(names))
                      s == IF size = 0 \/ size > Len(tl) THEN Len(tl) ELSE size
                  IN  SubSeq(tl, 1, s)

\* ------------------------------------------------------------------ handles
\* (*os.File).Sync on a handle's resource
\* &Handle{f: f, reopener: opener}: f is "open", "closed" (after Close) or
\* "nil" (after a reopener that failed); at and dir tell the file f refers to
\* and whether it is a directory, pos whether its directory stream was read,
\* name the path it was opened by, wrote (ghost) the bytes last written
\* through the Handle
NewHandle(n, p, dir) ==
    [f |-> "open", node |-> n, at |-> p, dir |-> dir, pos |-> 0, name |-> p, wrote |-> 0]

\* h.f.Sync(): on a closed file os.ErrClosed, on a nil file os.ErrInvalid
SyncOutcomes(f) ==
    IF f = "open" THEN {"nil", "EIO"}
    ELSE IF f = "closed" THEN {"ErrClosed"}
    ELSE {"ErrInvalid"}

\* the deferred log.Printf of a Handle method calls h.f.Name(), which
\* dereferences h.f: with a nil file the method panics whatever it returned
Logged(f, res) == IF f = "nil" THEN "panic" ELSE res

\* what Readdir(0) finds in the directory at p: the names and kinds below it
Entries(d, p) ==
    {<<q[Len(q)], d[q]>> : q \in {r \in Paths : Len(r) = Len(p) + 1 /\ IsPrefix(p, r)
                                                 /\ d[r] # "none"}}

\* ------------------------------------------------------------- bookkeeping
Constructed == 1..Len(realPath)
Live == Constructed \ forgotten
\* the record of a call: what was called and the error it returned, and, where a
\* claim speaks of them, the node, paths, attribute and handle it was about
Ret(op, res) ==
    [op |-> op, res |-> res, node |-> 0, from |-> rootPath, to |-> rootPath,
     name |-> 0, val |-> 0, names |-> <<>>, handle |-> 0, moved |-> {},
     parent |-> 0, raw |-> "nil", ents |-> {}]
NoCall == Ret("none", "nil")

\* &Node{realPath: p, isDir: dir, fs: f} with the given handle set
Construct(p, dir, hs) ==
    /\ realPath' = Append(realPath, p)
    /\ isDir' = Append(isDir, dir)
    /\ flushers' = Append(flushers, hs)

\* the goroutines serving concurrent calls, and one that serves none
Threads == {"t1", "t2"}
Idle ==
    [pc |-> "idle", call |-> "none", node |-> 0, dir |-> 0, name |-> "", name2 |-> "",
     xname |-> 0, xval |-> 0, op |-> rootPath, np |-> rootPath, isDir |-> FALSE,
     res |-> "nil", todo |-> <<>>, moved |-> {}, had |-> NilMap, found |-> FALSE,
     at |-> Unlinked, h |-> 0]
AllIdle == \A t \in Threads : th[t].pc = "idle"

\* one more handler call, served alone: it runs from entry to return with no
\* other call in flight
Tick ==
    /\ budget > 0
    /\ AllIdle
    /\ budget' = budget - 1
    /\ UNCHANGED <<paging, rplock, th, nlock, xlock>>

\* NewFS: an empty registry and xattr store, over an empty root directory
\* the construction option that switches the in-memory emulation on or off
inMemoryXattrOption == BOOLEAN

NewFS ==
    /\ disk = [p \in Paths |-> IF p = rootPath THEN "dir" ELSE "none"]
    /\ nodes = <<>>
    /\ realPath = <<>>
    /\ isDir = <<>>
    /\ forgotten = {}
    /\ xattrs = [p \in Paths |-> NilMap]
    /\ inMemoryXattr \in inMemoryXattrOption
    /\ flushers = <<>>
    /\ handles = <<>>
    /\ data = [p \in Paths |-> 0]
    /\ last = NoCall
    /\ paging = [acc |-> <<>>, done |-> FALSE]
    /\ th = [t \in Threads |-> Idle]
    /\ nlock = "free"
    /\ rplock = [t \in Threads |-> 0]
    /\ xlock = "free"

\* ---------------------------------------------------------------- FS.Root
Root ==
    /\ Tick
    /\ Len(realPath) < MaxNodes
    /\ Construct(rootPath, TRUE, {})
    /\ nodes' = newNode(nodes, rootPath, Len(realPath) + 1)
    /\ last' = [Ret("Root", "nil") EXCEPT !.node = Len(realPath) + 1]
    /\ UNCHANGED <<disk, data, forgotten, xattrs, inMemoryXattr, handles>>

\* ------------------------------------------------------------- Node.Lookup
Lookup(n, name) ==
    /\ Tick
    /\ n \in Live
    /\ IF ~isDir[n]
         THEN /\ last' = [Ret("Lookup", "fuse.ENOTSUP") EXCEPT !.parent = n]
              /\ UNCHANGED <<nodes, realPath, isDir, flushers>>
         ELSE LET p == Join(realPath[n], name)
                  err == translateError(StatErr(disk, p))
              IN  /\ p \in Paths
                  /\ IF err # "nil"
                       THEN /\ last' = [Ret("Lookup", err) EXCEPT !.parent = n, !.from = p]
                            /\ UNCHANGED <<nodes, realPath, isDir, flushers>>
                       ELSE /\ Len(realPath) < MaxNodes
                            /\ Construct(p, disk[p] = "dir", {})
                            /\ nodes' = newNode(nodes, p, Len(realPath) + 1)
                            /\ last' = [Ret("Lookup", "nil") EXCEPT !.node = Len(realPath) + 1,
                                                                    !.parent = n, !.from = p]
    /\ UNCHANGED <<disk, data, forgotten, xattrs, inMemoryXattr, handles>>

\* ------------------------------------------------------------- Node.Create
Create(n, name) ==
    /\ Tick
    /\ n \in Live
    /\ LET p == Join(realPath[n], name)
           err == IF p \in Paths THEN CreateErr(disk, p) ELSE "nil"
           h == Len(handles) + 1
           nn == Len(realPath) + 1
       IN  /\ p \in Paths
           /\ IF err # "nil"
                THEN /\ last' = Ret("Create", translateError(err))
                     /\ UNCHANGED <<disk, data, nodes, realPath, isDir, flushers, handles>>
                ELSE /\ Len(realPath) < MaxNodes
                     /\ Len(handles) < MaxHandles
                     /\ disk' = [disk EXCEPT ![p] = "file"]
                     /\ UNCHANGED data
                     /\ handles' = Append(handles, NewHandle(nn, p, FALSE))
                     /\ Construct(p, FALSE, {h})
                     /\ nodes' = newNode(nodes, p, nn)
                     /\ last' = [Ret("Create", "nil") EXCEPT !.node = nn, !.from = p, !.handle = h]
    /\ UNCHANGED <<forgotten, xattrs, inMemoryXattr>>

\* -------------------------------------------------------------- Node.Mkdir
Mkdir(n, name) ==
    /\ Tick
    /\ n \in Live
    /\ LET p == Join(realPath[n], name)
           err == IF p \in Paths THEN MkdirErr(disk, p) ELSE "nil"
       IN  /\ p \in Paths
           /\ IF err # "nil"
                THEN /\ last' = Ret("Mkdir", translateError(err))
                     /\ UNCHANGED <<disk, data, nodes, realPath, isDir, flushers>>
                ELSE /\ Len(realPath) < MaxNodes
                     /\ disk' = [disk EXCEPT ![p] = "dir"]
                     /\ UNCHANGED data
                     /\ Construct(p, TRUE, {})
                     /\ nodes' = newNode(nodes, p, Len(realPath) + 1)
                     /\ last' = [Ret("Mkdir", "nil") EXCEPT !.node = Len(realPath) + 1, !.from = p]
    /\ UNCHANGED <<forgotten, xattrs, inMemoryXattr, handles>>

\* ------------------------------------------------------------- Node.Remove
Remove(n, name) ==
    /\ Tick
    /\ n \in Live
    /\ LET p == Join(realPath[n], name)
           err == IF p \in Paths THEN RemoveErr(disk, p) ELSE "nil"
       IN  /\ p \in Paths
           /\ last' = [Ret("Remove", err) EXCEPT !.from = p, !.val = Cardinality(xattrs[p].kv)]
           /\ IF err = "nil"
                THEN /\ disk' = [disk EXCEPT ![p] = "none"]
                     /\ data' = [data EXCEPT ![p] = 0]
                     /\ handles' = FollowRemove(handles, p)
                     /\ xattrs' = moveAllxattrs(xattrs, p, EmptyPath)
                ELSE UNCHANGED <<disk, data, handles, xattrs>>
    /\ UNCHANGED <<nodes, realPath, isDir, forgotten, inMemoryXattr, flushers>>

\* ------------------------------------------------------------- Node.Rename
\* (mutant) the deferred function migrates whatever os.Rename returned
RenameMigratesAlways(err) == TRUE

\* the deferred function's test (line 513)
RenameMigrates(err) == err = "nil"

Rename(n, oldName, newDir, newName) ==
    /\ Tick
    /\ n \in Live
    /\ newDir \in Live
    /\ LET np == Join(realPath[newDir], newName)
           op == Join(realPath[n], oldName)
           err == IF np \in Paths /\ op \in Paths THEN RenameErr(disk, op, np) ELSE "nil"
           reg2 == nodeRenamedMap(nodes, op, np)
       IN  /\ np \in Paths
           /\ op \in Paths
           /\ last' = [Ret("Rename", err) EXCEPT
                            !.from = IF err = "nil" THEN op ELSE rootPath,
                            !.to = IF err = "nil" THEN np ELSE rootPath,
                            !.val = Cardinality(xattrs[op].kv),
                            !.moved = Range(Bucket(nodes, op))]
           /\ IF err = "nil"
                THEN /\ RenameFits(disk, op, np)
                     /\ disk' = DiskRename(disk, op, np)
                     /\ data' = DataRename(data, op, np)
                     /\ handles' = FollowRename(handles, op, np)
                ELSE UNCHANGED <<disk, data, handles>>
           /\ IF RenameMigrates(err)
                THEN /\ xattrs' = moveAllxattrs(xattrs, op, np)
                     /\ nodes' = reg2
                     /\ realPath' = nodeRenamedPaths(realPath, reg2, np)
                ELSE UNCHANGED <<xattrs, nodes, realPath>>
    /\ UNCHANGED <<isDir, forgotten, inMemoryXattr, flushers>>

\* ------------------------------------------------------------- Node.Forget
Forget(n) ==
    /\ Tick
    /\ n \in Constructed
    /\ nodes' = forgetNode(nodes, realPath[n], n)
    /\ forgotten' = forgotten \cup {n}
    /\ last' = [Ret("Forget", "nil") EXCEPT !.node = n]
    /\ UNCHANGED <<disk, data, realPath, isDir, xattrs, inMemoryXattr, flushers, handles>>

\* (mutant) the handlers never refuse
emulationOffIgnored == FALSE

\* the handlers' first test: if !n.fs.inMemoryXattr { return fuse.ENOTSUP }
emulationOff == ~inMemoryXattr

\* ----------------------------------------------------------- Node.Getxattr
Getxattr(n, name) ==
    /\ Tick
    /\ n \in Live
    /\ LET r == GetxattrAt(xattrs, realPath[n], name)
       IN  last' = IF emulationOff
                     THEN Ret("Getxattr", "fuse.ENOTSUP")
                     ELSE [Ret("Getxattr", r[1]) EXCEPT !.from = realPath[n], !.name = name, !.val = r[2]]
    /\ UNCHANGED <<disk, data, nodes, realPath, isDir, forgotten, xattrs, inMemoryXattr,
                   flushers, handles>>

\* ---------------------------------------------------------- Node.Listxattr
ListxattrRet(n, position, size) ==
    IF emulationOff
      THEN Ret("Listxattr", "fuse.ENOTSUP")
      ELSE [Ret("Listxattr", "nil") EXCEPT !.from = realPath[n], !.name = position, !.val = size,
                              !.names = ListxattrAt(xattrs[realPath[n]], position, size)]

Listxattr(n, position, size) ==
    /\ Tick
    /\ n \in Live
    /\ last' = ListxattrRet(n, position, size)
    /\ UNCHANGED <<disk, data, nodes, realPath, isDir, forgotten, xattrs, inMemoryXattr,
                   flushers, handles>>

\* a client's next page: Listxattr at the offset reached so far, until a call
\* returns no name
ListNextPage(n, size) ==
    /\ n \in Live
    /\ ~paging.done
    /\ last' = ListxattrRet(n, Len(paging.acc), size)
    /\ paging' = [acc |-> paging.acc \o last'.names, done |-> last'.names = <<>>]
    /\ UNCHANGED <<disk, data, nodes, realPath, isDir, forgotten, xattrs, inMemoryXattr,
                   flushers, handles, budget, th, nlock, rplock, xlock>>

\* Node.Setxattr's store (lines 602-608)
SetxattrAt(x, p, name, v) == [x EXCEPT ![p] = PutName(x[p], name, v)]

\* ----------------------------------------------------------- Node.Setxattr
Setxattr(n, name, v) ==
    /\ Tick
    /\ n \in Live
    /\ IF emulationOff
         THEN /\ last' = Ret("Setxattr", "fuse.ENOTSUP")
              /\ UNCHANGED xattrs
         ELSE /\ xattrs' = SetxattrAt(xattrs, realPath[n], name, v)
              /\ last' = [Ret("Setxattr", "nil") EXCEPT !.from = realPath[n], !.name = name, !.val = v]
    /\ UNCHANGED <<disk, data, nodes, realPath, isDir, forgotten, inMemoryXattr, flushers, handles>>

\* (mutant) the delete empties the whole map of the path
RemovexattrAtClearsAll(x, p, name) ==
    IF ~x[p].nil /\ HasName(x[p], name)
        THEN <<"nil", [x EXCEPT ![p] = EmptyMap]>>
        ELSE <<"fuse.ENODATA", x>>

\* Node.Removexattr's delete (lines 630-638): <<error, store>>
RemovexattrAt(x, p, name) ==
    IF ~x[p].nil /\ HasName(x[p], name)
        THEN <<"nil", [x EXCEPT ![p] = DelName(x[p], name)]>>
        ELSE <<"fuse.ENODATA", x>>

\* -------------------------------------------------------- Node.Removexattr
Removexattr(n, name) ==
    /\ Tick
    /\ n \in Live
    /\ IF emulationOff
         THEN /\ last' = Ret("Removexattr", "fuse.ENOTSUP")
              /\ UNCHANGED xattrs
         ELSE LET r == RemovexattrAt(xattrs, realPath[n], name)
              IN  /\ xattrs' = r[2]
                  /\ last' = [Ret("Removexattr", r[1]) EXCEPT !.from = realPath[n], !.name = name]
    /\ UNCHANGED <<disk, data, nodes, realPath, isDir, forgotten, inMemoryXattr, flushers, handles>>

\* Node.rememberHandle
rememberHandle(fl, n, h) == [fl EXCEPT ![n] = @ \cup {h}]

\* (mutant) the handle stays in the set
forgetHandleKeeps(fl, n, h) == fl

\* Node.forgetHandle
forgetHandle(fl, n, h) == [fl EXCEPT ![n] = @ \ {h}]

\* --------------------------------------------------------------- Node.Open
Open(n) ==
    /\ Tick
    /\ n \in Live
    /\ LET err == StatErr(disk, realPath[n])
           h == Len(handles) + 1
       IN  IF err # "nil"
             THEN /\ last' = [Ret("Open", translateError(err)) EXCEPT !.node = n]
                  /\ UNCHANGED <<flushers, handles>>
             ELSE /\ Len(handles) < MaxHandles
                  /\ handles' = Append(handles, NewHandle(n, realPath[n], disk[realPath[n]] = "dir"))
                  /\ flushers' = rememberHandle(flushers, n, h)
                  /\ last' = [Ret("Open", "nil") EXCEPT !.node = n, !.handle = h]
    /\ UNCHANGED <<disk, data, nodes, realPath, isDir, forgotten, xattrs, inMemoryXattr>>

\* ---------------------------------------------------------- Handle.Release
\* a Handle is in use from its construction until its Release
InUse(h) == h \in 1..Len(handles) /\ h \in flushers[handles[h].node]

\* what closing an open file can return
CloseOutcomes == {"nil", "EIO"}

\* h.f.Close(): closes an open file (whatever it returns); os.ErrClosed on a
\* closed file, os.ErrInvalid on a nil one
CloseFile(hd) == IF hd.f = "open" THEN [hd EXCEPT !.f = "closed", !.at = Unlinked, !.pos = 0] ELSE hd
CloseResults(f) ==
    IF f = "open" THEN CloseOutcomes
    ELSE IF f = "closed" THEN {"ErrClosed"}
    ELSE {"ErrInvalid"}

Release(h, closeErr) ==
    /\ Tick
    /\ InUse(h)
    /\ closeErr \in CloseResults(handles[h].f)
    /\ flushers' = forgetHandle(flushers, handles[h].node, h)
    /\ handles' = [handles EXCEPT ![h] = CloseFile(@)]
    /\ last' = [Ret("Release", Logged(handles[h].f, closeErr)) EXCEPT !.handle = h]
    /\ UNCHANGED <<disk, data, nodes, realPath, isDir, forgotten, xattrs, inMemoryXattr>>

\* ------------------------------------------------------------ Handle.Flush
Flush(h, syncErr) ==
    /\ Tick
    /\ InUse(h)
    /\ syncErr \in SyncOutcomes(handles[h].f)
    /\ last' = [Ret("Flush", Logged(handles[h].f, syncErr)) EXCEPT !.handle = h]
    /\ UNCHANGED <<disk, data, nodes, realPath, isDir, forgotten, xattrs, inMemoryXattr,
                   flushers, handles>>

\* -------------------------------------------------------------- Node.Fsync
\* range over a Go map picks any of its keys
Fsync(n, h, syncErr) ==
    /\ Tick
    /\ n \in Live
    /\ IF flushers[n] = {}
         THEN /\ h = 0
              /\ syncErr = "nil"
              /\ last' = [Ret("Fsync", "fuse.EIO") EXCEPT !.node = n]
         ELSE /\ h \in flushers[n]
              /\ syncErr \in SyncOutcomes(handles[h].f)
              /\ last' = [Ret("Fsync", syncErr) EXCEPT !.node = n, !.handle = h]
    /\ UNCHANGED <<disk, data, nodes, realPath, isDir, forgotten, xattrs, inMemoryXattr,
                   flushers, handles>>

\* ------------------------------------------------------- Handle.ReadDirAll
\* the reopener of a Handle made by Open: os.OpenFile(n.getRealPath(), ...)
\* (the Handle made by Create refers to a regular file, whose Readdir fails
\* before the reopener is reached)
Reopen(hd) ==
    LET path == realPath[hd.node]
    IN  IF StatErr(disk, path) = "nil"
          THEN NewHandle(hd.node, path, disk[path] = "dir")
          ELSE [hd EXCEPT !.f = "nil", !.at = Unlinked, !.pos = 0]

ReadDirAll(h, closeErr) ==
    /\ Tick
    /\ InUse(h)
    /\ LET hd == handles[h]
           fis == IF hd.at = Unlinked \/ hd.pos # 0 THEN {} ELSE Entries(disk, hd.at)
       IN  IF hd.f # "open" \/ ~hd.dir
             THEN \* h.f.Readdir(0) fails
                  /\ closeErr = "nil"
                  /\ last' = [Ret("ReadDirAll",
                                  Logged(hd.f, IF hd.f = "nil" THEN "ErrInvalid"
                                               ELSE IF hd.f = "closed" THEN "ErrClosed"
                                               ELSE "ENOTDIR")) EXCEPT !.handle = h]
                  /\ UNCHANGED handles
             ELSE /\ closeErr \in CloseOutcomes
                  /\ IF closeErr # "nil"
                       THEN /\ handles' = [handles EXCEPT ![h] = CloseFile(hd)]
                            /\ last' = [Ret("ReadDirAll", closeErr) EXCEPT !.handle = h]
                       ELSE /\ handles' = [handles EXCEPT ![h] = Reopen(hd)]
                            /\ last' = IF handles'[h].f = "nil"
                                         THEN [Ret("ReadDirAll", "panic") EXCEPT !.handle = h]
                                         ELSE [Ret("ReadDirAll", "nil") EXCEPT !.handle = h,
                                                                               !.ents = fis]
    /\ UNCHANGED <<disk, data, nodes, realPath, isDir, forgotten, xattrs, inMemoryXattr,
                   flushers>>

\* ------------------------------------------------------------- Handle.Read
\* Seek(offset 0) and Read: the bytes of the file, io.EOF when it has none
\* (a file that has no name any more is not read or written here)
ReadErr(hd, c) ==
    IF hd.f = "nil" THEN "ErrInvalid"
    ELSE IF hd.f = "closed" THEN "ErrClosed"
    ELSE IF hd.dir THEN "EISDIR"
    ELSE IF c[hd.at] = 0 THEN "EOF"
    ELSE "nil"

Read(h) ==
    /\ Tick
    /\ InUse(h)
    /\ handles[h].f = "open" => handles[h].at # Unlinked
    /\ LET err == ReadErr(handles[h], data)
       IN  last' = [Ret("Read", Logged(handles[h].f, translateError(err))) EXCEPT
                        !.handle = h,
                        !.val = IF err = "nil" THEN data[handles[h].at] ELSE 0]
    /\ UNCHANGED <<disk, data, nodes, realPath, isDir, forgotten, xattrs, inMemoryXattr,
                   flushers, handles>>

\* ------------------------------------------------------------ Handle.Write
WriteErr(hd) ==
    IF hd.f = "nil" THEN "ErrInvalid"
    ELSE IF hd.f = "closed" THEN "ErrClosed"
    ELSE IF hd.dir THEN "EISDIR"
    ELSE "nil"

Write(h, v) ==
    /\ Tick
    /\ InUse(h)
    /\ handles[h].f = "open" => handles[h].at # Unlinked
    /\ LET err == WriteErr(handles[h])
       IN  /\ last' = [Ret("Write", Logged(handles[h].f, translateError(err))) EXCEPT
                           !.handle = h, !.val = v]
           /\ data' = IF err = "nil" THEN [data EXCEPT ![handles[h].at] = v] ELSE data
           /\ handles' = IF err = "nil" THEN [handles EXCEPT ![h].wrote = v] ELSE handles
    /\ UNCHANGED <<disk, nodes, realPath, isDir, forgotten, xattrs, inMemoryXattr,
                   flushers>>

\* --------------------------------------------------------------- Node.Attr
Attr(n) ==
    /\ Tick
    /\ n \in Live
    /\ last' = [Ret("Attr", translateError(StatErr(disk, realPath[n]))) EXCEPT
                    !.node = n, !.from = realPath[n]]
    /\ UNCHANGED <<disk, data, nodes, realPath, isDir, forgotten, xattrs, inMemoryXattr,
                   flushers, handles>>

\* ------------------------------------------------------ concurrent handlers
\* A call served by goroutine t advances one shared access at a time: a read
\* of a node's path (getRealPath), a system call, a critical section of nlock
\* or xlock.  A critical section that reads no path twice is one step.
InFlight(calls) == {t \in Threads : th[t].pc \notin {"idle", "done"} /\ th[t].call \in calls}
NodeRoom == Len(realPath) + Cardinality(InFlight({"Lookup", "Create", "Mkdir"})) < MaxNodes
HandleRoom == Len(handles) + Cardinality(InFlight({"Create"})) < MaxHandles
Done(t, call, res) == [Idle EXCEPT !.pc = "done", !.call = call, !.res = res]

\* FS.Root
RootCall(t) ==
    /\ th[t].pc = "idle"
    /\ NodeRoom
    /\ nlock = "free"
    /\ Construct(rootPath, TRUE, {})
    /\ nodes' = newNode(nodes, rootPath, Len(realPath) + 1)
    /\ th' = [th EXCEPT ![t] = [Done(t, "Root", "nil") EXCEPT !.node = Len(realPath) + 1]]
    /\ UNCHANGED <<disk, data, forgotten, xattrs, inMemoryXattr, handles, last, budget, paging, rplock,
                   nlock, xlock>>

\* Node.Lookup, line 226: p := filepath.Join(n.getRealPath(), name)
LookupPath(t, n, name) ==
    /\ th[t].pc = "idle"
    /\ n \in Live
    /\ NodeRoom
    /\ IF ~isDir[n]
         THEN th' = [th EXCEPT ![t] = [Done(t, "Lookup", "fuse.ENOTSUP") EXCEPT !.node = n]]
         ELSE /\ Join(realPath[n], name) \in Paths
              /\ th' = [th EXCEPT ![t] = [Idle EXCEPT !.pc = "Lookup_stat", !.call = "Lookup",
                                             !.node = n, !.name = name,
                                             !.op = Join(realPath[n], name)]]
    /\ UNCHANGED <<disk, data, nodes, realPath, isDir, forgotten, xattrs, inMemoryXattr, flushers,
                   handles, last, budget, paging, rplock, nlock, xlock>>

\* Node.Lookup, lines 227-239: os.Stat(p) and the node to register
LookupStat(t) ==
    /\ th[t].pc = "Lookup_stat"
    /\ LET err == translateError(StatErr(disk, th[t].op))
       IN  th' = [th EXCEPT ![t] =
                    IF err # "nil"
                      THEN [Done(t, "Lookup", err) EXCEPT !.node = th[t].node]
                      ELSE [@ EXCEPT !.pc = "newNode", !.np = th[t].op,
                                     !.isDir = (disk[th[t].op] = "dir")]]
    /\ UNCHANGED <<disk, data, nodes, realPath, isDir, forgotten, xattrs, inMemoryXattr, flushers,
                   handles, last, budget, paging, rplock, nlock, xlock>>

\* Node.Create, line 355: name := filepath.Join(n.getRealPath(), req.Name)
CreatePath(t, n, name) ==
    /\ th[t].pc = "idle"
    /\ n \in Live
    /\ NodeRoom
    /\ HandleRoom
    /\ Join(realPath[n], name) \in Paths
    /\ th' = [th EXCEPT ![t] = [Idle EXCEPT !.pc = "Create_open", !.call = "Create",
                                   !.node = n, !.name = name,
                                   !.op = Join(realPath[n], name)]]
    /\ UNCHANGED <<disk, data, nodes, realPath, isDir, forgotten, xattrs, inMemoryXattr, flushers,
                   handles, last, budget, paging, rplock, nlock, xlock>>

\* Node.Create, lines 365-368: os.OpenFile(name, flags, mode)
CreateOpen(t) ==
    /\ th[t].pc = "Create_open"
    /\ LET err == CreateErr(disk, th[t].op)
       IN  IF err # "nil"
             THEN /\ th' = [th EXCEPT ![t] =
                              [Done(t, "Create", translateError(err)) EXCEPT !.node = th[t].node]]
                  /\ UNCHANGED <<disk, data>>
             ELSE /\ disk' = [disk EXCEPT ![th[t].op] = "file"]
                  /\ UNCHANGED data
                  /\ th' = [th EXCEPT ![t] = [@ EXCEPT !.pc = "Create_node", !.at = th[t].op]]
    /\ UNCHANGED <<nodes, realPath, isDir, forgotten, xattrs, inMemoryXattr, flushers,
                   handles, last, budget, paging, rplock, nlock, xlock>>

\* Node.Create, lines 372-376: the node's path is read from the parent again
CreateNode(t) ==
    /\ th[t].pc = "Create_node"
    /\ th' = [th EXCEPT ![t] = [@ EXCEPT !.pc = "newNode", !.isDir = FALSE,
                                   !.np = Join(realPath[th[t].node], th[t].name)]]
    /\ UNCHANGED <<disk, data, nodes, realPath, isDir, forgotten, xattrs, inMemoryXattr, flushers,
                   handles, last, budget, paging, rplock, nlock, xlock>>

\* Node.Mkdir, line 391: name := filepath.Join(n.getRealPath(), req.Name)
MkdirPath(t, n, name) ==
    /\ th[t].pc = "idle"
    /\ n \in Live
    /\ NodeRoom
    /\ Join(realPath[n], name) \in Paths
    /\ th' = [th EXCEPT ![t] = [Idle EXCEPT !.pc = "Mkdir_os", !.call = "Mkdir",
                                   !.node = n, !.name = name,
                                   !.op = Join(realPath[n], name)]]
    /\ UNCHANGED <<disk, data, nodes, realPath, isDir, forgotten, xattrs, inMemoryXattr, flushers,
                   handles, last, budget, paging, rplock, nlock, xlock>>

\* Node.Mkdir, lines 392-395: os.Mkdir(name, mode) and the node to register
MkdirOs(t) ==
    /\ th[t].pc = "Mkdir_os"
    /\ LET err == MkdirErr(disk, th[t].op)
       IN  IF err # "nil"
             THEN /\ th' = [th EXCEPT ![t] =
                              [Done(t, "Mkdir", translateError(err)) EXCEPT !.node = th[t].node]]
                  /\ UNCHANGED <<disk, data>>
             ELSE /\ disk' = [disk EXCEPT ![th[t].op] = "dir"]
                  /\ UNCHANGED data
                  /\ th' = [th EXCEPT ![t] = [@ EXCEPT !.pc = "newNode", !.np = th[t].op,
                                                 !.isDir = TRUE]]
    /\ UNCHANGED <<nodes, realPath, isDir, forgotten, xattrs, inMemoryXattr, flushers,
                   handles, last, budget, paging, rplock, nlock, xlock>>

\* FS.newNode, called last by Lookup, Create and Mkdir with the node they
\* made; until then no other goroutine can reach the node
FSnewNode(t) ==
    /\ th[t].pc = "newNode"
    /\ nlock = "free"
    /\ LET nn == Len(realPath) + 1
           h == Len(handles) + 1
       IN  /\ IF th[t].call = "Create"
                THEN /\ handles' = Append(handles, [NewHandle(nn, th[t].op, FALSE) EXCEPT
                                                        !.at = th[t].at])
                     /\ Construct(th[t].np, th[t].isDir, {h})
                ELSE /\ Construct(th[t].np, th[t].isDir, {})
                     /\ UNCHANGED handles
           /\ nodes' = newNode(nodes, th[t].np, nn)
           /\ th' = [th EXCEPT ![t] = [Done(t, th[t].call, "nil") EXCEPT !.node = nn,
                                                                       !.np = th[t].np]]
    /\ UNCHANGED <<disk, data, forgotten, xattrs, inMemoryXattr, last, budget, paging, rplock, nlock, xlock>>

\* Node.Forget: forgetNode is one critical section of nlock
ForgetCall(t, n) ==
    /\ th[t].pc = "idle"
    /\ n \in Live
    /\ nlock = "free"
    /\ nodes' = forgetNode(nodes, realPath[n], n)
    /\ forgotten' = forgotten \cup {n}
    /\ th' = [th EXCEPT ![t] = [Done(t, "Forget", "nil") EXCEPT
                                   !.node = n, !.op = realPath[n],
                                   !.found = (n \in Range(Bucket(nodes, realPath[n])))]]
    /\ UNCHANGED <<disk, data, realPath, isDir, xattrs, inMemoryXattr, flushers, handles, last,
                   budget, paging, rplock, nlock, xlock>>

\* Node.Rename, line 507: np := filepath.Join(newDir.getRealPath(), req.NewName)
RenameNp(t, n, oldName, newDir, newName) ==
    /\ th[t].pc = "idle"
    /\ n \in Live
    /\ newDir \in Live
    /\ Join(realPath[newDir], newName) \in Paths
    /\ th' = [th EXCEPT ![t] = [Idle EXCEPT !.pc = "Rename_op", !.call = "Rename",
                                   !.node = n, !.dir = newDir, !.name = oldName,
                                   !.name2 = newName,
                                   !.np = Join(realPath[newDir], newName)]]
    /\ UNCHANGED <<disk, data, nodes, realPath, isDir, forgotten, xattrs, inMemoryXattr, flushers,
                   handles, last, budget, paging, rplock, nlock, xlock>>

\* Node.Rename, line 508: op := filepath.Join(n.getRealPath(), req.OldName)
RenameOp(t) ==
    /\ th[t].pc = "Rename_op"
    /\ Join(realPath[th[t].node], th[t].name) \in Paths
    /\ th' = [th EXCEPT ![t] = [@ EXCEPT !.pc = "Rename_os",
                                   !.op = Join(realPath[th[t].node], th[t].name)]]
    /\ UNCHANGED <<disk, data, nodes, realPath, isDir, forgotten, xattrs, inMemoryXattr, flushers,
                   handles, last, budget, paging, rplock, nlock, xlock>>

\* Node.Rename, line 518: os.Rename(op, np); the deferred function runs next
RenameOs(t) ==
    /\ th[t].pc = "Rename_os"
    /\ LET err == RenameErr(disk, th[t].op, th[t].np)
       IN  /\ IF err = "nil"
                THEN /\ RenameFits(disk, th[t].op, th[t].np)
                     /\ disk' = DiskRename(disk, th[t].op, th[t].np)
                     /\ data' = DataRename(data, th[t].op, th[t].np)
                     /\ handles' = FollowRename(handles, th[t].op, th[t].np)
                ELSE UNCHANGED <<disk, data, handles>>
           /\ th' = [u \in Threads |->
                        IF u # t
                          THEN [th[u] EXCEPT !.at = IF err = "nil"
                                                      THEN FileAfterRename(@, th[t].op, th[t].np)
                                                      ELSE @]
                        ELSE IF RenameMigrates(err)
                          THEN [th[t] EXCEPT !.pc = "Rename_xattrs", !.res = err]
                          ELSE [Done(t, "Rename", err) EXCEPT !.node = th[t].node]]
    /\ UNCHANGED <<nodes, realPath, isDir, forgotten, xattrs, inMemoryXattr, flushers,
                   last, budget, paging, rplock, nlock, xlock>>

\* a goroutine holds xlock for reading: Getxattr from its RLock to its return
xlockRLocked == \E t \in Threads : th[t].pc = "Getxattr_path"

\* Node.Rename, line 514: moveAllxattrs is one critical section of xlock
RenameMoveAllxattrs(t) ==
    /\ th[t].pc = "Rename_xattrs"
    /\ xlock = "free"
    /\ ~xlockRLocked
    /\ xattrs' = moveAllxattrs(xattrs, th[t].op, th[t].np)
    /\ th' = [th EXCEPT ![t] = [@ EXCEPT !.pc = "Rename_nodes", !.had = xattrs[th[t].op]]]
    /\ UNCHANGED <<disk, data, nodes, realPath, isDir, forgotten, inMemoryXattr, flushers,
                   handles, last, budget, paging, rplock, nlock, xlock>>

\* FS.nodeRenamed, lines 51-54: lock, append, delete
RenameNodeRenamed(t) ==
    /\ th[t].pc = "Rename_nodes"
    /\ nlock = "free"
    /\ nlock' = t
    /\ nodes' = nodeRenamedMap(nodes, th[t].op, th[t].np)
    /\ th' = [th EXCEPT ![t] = [@ EXCEPT !.pc = "Rename_loop",
                                   !.todo = Bucket(nodes', th[t].np),
                                   !.moved = Range(Bucket(nodes, th[t].op))]]
    /\ UNCHANGED <<disk, data, realPath, isDir, forgotten, xattrs, inMemoryXattr, flushers,
                   handles, last, budget, paging, rplock, xlock>>

\* a goroutine waits in updateRealPath's n.rpLock.Lock(): sync.RWMutex lets
\* no new reader in while a writer waits
rpLockWanted(n) == \E t \in Threads : th[t].pc = "Rename_wlock" /\ Head(th[t].todo) = n

\* Node.updateRealPath, line 177: n.rpLock.Lock() is called, under nlock, and
\* waits for the readers that hold the lock
updateRealPathLock(t) ==
    /\ th[t].pc = "Rename_loop"
    /\ th[t].todo # <<>>
    /\ th' = [th EXCEPT ![t].pc = "Rename_wlock"]
    /\ UNCHANGED <<disk, data, nodes, realPath, isDir, forgotten, xattrs, inMemoryXattr, flushers,
                   handles, last, budget, paging, rplock, nlock, xlock>>

\* FS.nodeRenamed, lines 55-57: one n.updateRealPath(newPath) of the loop;
\* the Lock is granted once no reader holds it, the path is written, Unlock
RenameUpdateRealPath(t) ==
    /\ th[t].pc \in {"Rename_loop", "Rename_wlock"}
    /\ th[t].todo # <<>>
    /\ \A u \in Threads : rplock[u] # Head(th[t].todo)
    /\ realPath' = [realPath EXCEPT ![Head(th[t].todo)] = th[t].np]
    /\ th' = [th EXCEPT ![t] = [@ EXCEPT !.todo = Tail(@), !.pc = "Rename_loop"]]
    /\ UNCHANGED <<disk, data, nodes, isDir, forgotten, xattrs, inMemoryXattr, flushers,
                   handles, last, budget, paging, rplock, nlock, xlock>>

\* FS.nodeRenamed returns: the deferred Unlock, and Rename returns
RenameUnlock(t) ==
    /\ th[t].pc = "Rename_loop"
    /\ th[t].todo = <<>>
    /\ nlock' = "free"
    /\ th' = [th EXCEPT ![t] = [Done(t, "Rename", "nil") EXCEPT
                                   !.node = th[t].node, !.op = th[t].op, !.np = th[t].np,
                                   !.moved = th[t].moved, !.had = th[t].had]]
    /\ UNCHANGED <<disk, data, nodes, realPath, isDir, forgotten, xattrs, inMemoryXattr, flushers,
                   handles, last, budget, paging, rplock, xlock>>

\* Node.Open, line 329: getRealPath takes the node's rpLock for reading
OpenRLock(t, n) ==
    /\ th[t].pc = "idle"
    /\ n \in Live
    /\ Len(handles) + Cardinality(InFlight({"Open"})) < MaxHandles
    /\ ~rpLockWanted(n)
    /\ rplock' = [rplock EXCEPT ![t] = n]
    /\ th' = [th EXCEPT ![t] = [Idle EXCEPT !.pc = "Open_rlocked", !.call = "Open", !.node = n]]
    /\ UNCHANGED <<disk, data, nodes, realPath, isDir, forgotten, xattrs, inMemoryXattr, flushers,
                   handles, last, budget, paging, nlock, xlock>>

\* (mutant) getRealPath returns with the lock held
OpenPathKeepsLock(t) ==
    /\ th[t].pc = "Open_rlocked"
    /\ th' = [th EXCEPT ![t] = [@ EXCEPT !.pc = "Open_file", !.op = realPath[th[t].node]]]
    /\ UNCHANGED <<disk, data, nodes, realPath, isDir, forgotten, xattrs, inMemoryXattr, flushers,
                   handles, last, budget, paging, rplock, nlock, xlock>>

\* getRealPath, lines 170-174: the path is read, the deferred RUnlock runs,
\* and the path is the argument of os.OpenFile
OpenPath(t) ==
    /\ th[t].pc = "Open_rlocked"
    /\ rplock' = [rplock EXCEPT ![t] = 0]
    /\ th' = [th EXCEPT ![t] = [@ EXCEPT !.pc = "Open_file", !.op = realPath[th[t].node]]]
    /\ UNCHANGED <<disk, data, nodes, realPath, isDir, forgotten, xattrs, inMemoryXattr, flushers,
                   handles, last, budget, paging, nlock, xlock>>

\* Node.Open, lines 332-335: os.OpenFile(path, flags, perm)
OpenFile(t) ==
    /\ th[t].pc = "Open_file"
    /\ LET err == StatErr(disk, th[t].op)
       IN  th' = [th EXCEPT ![t] =
                    IF err # "nil"
                      THEN [Done(t, "Open", translateError(err)) EXCEPT !.node = th[t].node]
                      ELSE [@ EXCEPT !.pc = "Open_remember", !.at = th[t].op,
                                     !.isDir = disk[th[t].op] = "dir"]]
    /\ UNCHANGED <<disk, data, nodes, realPath, isDir, forgotten, xattrs, inMemoryXattr, flushers,
                   handles, last, budget, paging, rplock, nlock, xlock>>

\* a goroutine holds n.lock for reading from Fsync's RLock to its return
flushersRLocked(n) == \E t \in Threads : th[t].pc = "Fsync_sync" /\ th[t].node = n

\* Node.Open, lines 337-338: the Handle, and rememberHandle under n.lock
OpenRemember(t) ==
    /\ th[t].pc = "Open_remember"
    /\ ~flushersRLocked(th[t].node)
    /\ LET h == Len(handles) + 1
       IN  /\ handles' = Append(handles, [NewHandle(th[t].node, th[t].op, th[t].isDir) EXCEPT
                                              !.at = th[t].at])
           /\ flushers' = rememberHandle(flushers, th[t].node, h)
           /\ th' = [th EXCEPT ![t] = [Done(t, "Open", "nil") EXCEPT !.node = th[t].node, !.h = h]]
    /\ UNCHANGED <<disk, data, nodes, realPath, isDir, forgotten, xattrs, inMemoryXattr,
                   last, budget, paging, rplock, nlock, xlock>>

\* (mutant) forgetHandle does not wait for n.lock
flushersLockedNever(n) == FALSE

\* forgetHandle's n.lock.Lock() waits while a goroutine holds n.lock
flushersLocked(n) == flushersRLocked(n)

\* Handle.Release, lines 110-112: the forgetter, n.forgetHandle(h) under n.lock
ReleaseForget(t, h) ==
    /\ th[t].pc = "idle"
    /\ InUse(h)
    /\ \A u \in InFlight({"Release"}) : th[u].h # h
    /\ ~flushersLocked(handles[h].node)
    /\ flushers' = forgetHandle(flushers, handles[h].node, h)
    /\ th' = [th EXCEPT ![t] = [Idle EXCEPT !.pc = "Release_close", !.call = "Release",
                                   !.node = handles[h].node, !.h = h]]
    /\ UNCHANGED <<disk, data, nodes, realPath, isDir, forgotten, xattrs, inMemoryXattr,
                   handles, last, budget, paging, rplock, nlock, xlock>>

\* Handle.Release, line 113: h.f.Close()
ReleaseClose(t, closeErr) ==
    /\ th[t].pc = "Release_close"
    /\ closeErr \in CloseResults(handles[th[t].h].f)
    /\ handles' = [handles EXCEPT ![th[t].h] = CloseFile(@)]
    /\ th' = [th EXCEPT ![t] = [Done(t, "Release", Logged(handles[th[t].h].f, closeErr)) EXCEPT
                                   !.node = th[t].node, !.h = th[t].h]]
    /\ UNCHANGED <<disk, data, nodes, realPath, isDir, forgotten, xattrs, inMemoryXattr, flushers,
                   last, budget, paging, rplock, nlock, xlock>>

\* Node.Fsync, lines 420-423: RLock, and the Handle the range yields first
FsyncRLock(t, n, h) ==
    /\ th[t].pc = "idle"
    /\ n \in Live
    /\ IF flushers[n] = {}
         THEN /\ h = 0
              /\ th' = [th EXCEPT ![t] = [Done(t, "Fsync", "fuse.EIO") EXCEPT !.node = n]]
         ELSE /\ h \in flushers[n]
              /\ th' = [th EXCEPT ![t] = [Idle EXCEPT !.pc = "Fsync_sync", !.call = "Fsync",
                                             !.node = n, !.h = h]]
    /\ UNCHANGED <<disk, data, nodes, realPath, isDir, forgotten, xattrs, inMemoryXattr, flushers,
                   handles, last, budget, paging, rplock, nlock, xlock>>

\* Node.Fsync, line 423: h.f.Sync(), then the deferred RUnlock
FsyncSync(t, syncErr) ==
    /\ th[t].pc = "Fsync_sync"
    /\ syncErr \in SyncOutcomes(handles[th[t].h].f)
    /\ th' = [th EXCEPT ![t] = [Done(t, "Fsync", syncErr) EXCEPT !.node = th[t].node,
                                                                 !.h = th[t].h]]
    /\ UNCHANGED <<disk, data, nodes, realPath, isDir, forgotten, xattrs, inMemoryXattr, flushers,
                   handles, last, budget, paging, rplock, nlock, xlock>>

\* Node.Getxattr: one read of the path, under xlock
GetxattrCall(t, n, name) ==
    /\ th[t].pc = "idle"
    /\ n \in Live
    /\ inMemoryXattr => xlock = "free"
    /\ LET r == GetxattrAt(xattrs, realPath[n], name)
       IN  th' = [th EXCEPT ![t] =
                    IF emulationOff
                      THEN Done(t, "Getxattr", "fuse.ENOTSUP")
                      ELSE [Done(t, "Getxattr", r[1]) EXCEPT !.node = n, !.xname = name,
                                                              !.xval = r[2]]]
    /\ UNCHANGED <<disk, data, nodes, realPath, isDir, forgotten, xattrs, inMemoryXattr, flushers,
                   handles, last, budget, paging, rplock, nlock, xlock>>

\* Node.Listxattr: one read of the path, under xlock
ListxattrCall(t, n, position, size) ==
    /\ th[t].pc = "idle"
    /\ n \in Live
    /\ inMemoryXattr => xlock = "free"
    /\ th' = [th EXCEPT ![t] =
                 [Done(t, "Listxattr", ListxattrRet(n, position, size).res) EXCEPT
                     !.node = n, !.todo = ListxattrRet(n, position, size).names]]
    /\ UNCHANGED <<disk, data, nodes, realPath, isDir, forgotten, xattrs, inMemoryXattr, flushers,
                   handles, last, budget, paging, rplock, nlock, xlock>>

\* Node.Removexattr: one read of the path, under xlock
RemovexattrCall(t, n, name) ==
    /\ th[t].pc = "idle"
    /\ n \in Live
    /\ inMemoryXattr => xlock = "free"
    /\ IF emulationOff
         THEN /\ th' = [th EXCEPT ![t] = Done(t, "Removexattr", "fuse.ENOTSUP")]
              /\ UNCHANGED xattrs
         ELSE LET r == RemovexattrAt(xattrs, realPath[n], name)
              IN  /\ xattrs' = r[2]
                  /\ th' = [th EXCEPT ![t] = [Done(t, "Removexattr", r[1]) EXCEPT
                                                 !.node = n, !.xname = name]]
    /\ UNCHANGED <<disk, data, nodes, realPath, isDir, forgotten, inMemoryXattr, flushers,
                   handles, last, budget, paging, rplock, nlock, xlock>>

\* Node.Setxattr, lines 600-602: Lock, and the test of xattrs[n.getRealPath()]
SetxattrLock(t, n, name, v) ==
    /\ th[t].pc = "idle"
    /\ n \in Live
    /\ IF emulationOff
         THEN /\ th' = [th EXCEPT ![t] = Done(t, "Setxattr", "fuse.ENOTSUP")]
              /\ UNCHANGED xlock
         ELSE /\ xlock = "free"
              /\ xlock' = t
              /\ th' = [th EXCEPT ![t] =
                          [Idle EXCEPT !.pc = IF xattrs[realPath[n]].nil THEN "Setxattr_make"
                                                                         ELSE "Setxattr_store",
                                       !.call = "Setxattr", !.node = n, !.xname = name,
                                       !.xval = v]]
    /\ UNCHANGED <<disk, data, nodes, realPath, isDir, forgotten, xattrs, inMemoryXattr, flushers,
                   handles, last, budget, paging, rplock, nlock>>

\* Node.Setxattr, line 603: xattrs[n.getRealPath()] = make(map[string][]byte)
SetxattrMake(t) ==
    /\ th[t].pc = "Setxattr_make"
    /\ xattrs' = [xattrs EXCEPT ![realPath[th[t].node]] = EmptyMap]
    /\ th' = [th EXCEPT ![t].pc = "Setxattr_store"]
    /\ rplock' = [rplock EXCEPT ![t] = 0]
    /\ UNCHANGED <<disk, data, nodes, realPath, isDir, forgotten, inMemoryXattr, flushers,
                   handles, last, budget, paging, nlock, xlock>>

\* Node.Setxattr, lines 608-609: xattrs[n.getRealPath()][req.Name] = buf, which
\* panics on a nil map; the deferred Unlock runs either way
SetxattrStore(t) ==
    /\ th[t].pc = "Setxattr_store"
    /\ LET p == realPath[th[t].node]
       IN  IF xattrs[p].nil
             THEN /\ UNCHANGED xattrs
                  /\ th' = [th EXCEPT ![t] = [Done(t, "Setxattr", "panic") EXCEPT
                                !.node = th[t].node, !.xname = th[t].xname,
                                !.xval = th[t].xval]]
             ELSE /\ xattrs' = SetxattrAt(xattrs, p, th[t].xname, th[t].xval)
                  /\ th' = [th EXCEPT ![t] = [Done(t, "Setxattr", "nil") EXCEPT
                                !.node = th[t].node, !.xname = th[t].xname,
                                !.xval = th[t].xval]]
    /\ xlock' = "free"
    /\ rplock' = [rplock EXCEPT ![t] = 0]
    /\ UNCHANGED <<disk, data, nodes, realPath, isDir, forgotten, inMemoryXattr, flushers,
                   handles, last, budget, paging, nlock>>

\* getRealPath, line 171, called with xlock held: n.rpLock.RLock(), which
\* waits while a writer waits for or holds the lock
getRealPathRLock(t) ==
    /\ th[t].pc \in {"Getxattr_path", "Setxattr_test", "Setxattr_make", "Setxattr_store"}
    /\ rplock[t] = 0
    /\ ~rpLockWanted(th[t].node)
    /\ rplock' = [rplock EXCEPT ![t] = th[t].node]
    /\ UNCHANGED <<disk, data, nodes, realPath, isDir, forgotten, xattrs, inMemoryXattr, flushers,
                   handles, last, budget, paging, th, nlock, xlock>>

\* Node.Getxattr, line 534: n.fs.xlock.RLock()
GetxattrRLock(t, n, name) ==
    /\ th[t].pc = "idle"
    /\ n \in Live
    /\ ~emulationOff
    /\ xlock = "free"
    /\ th' = [th EXCEPT ![t] = [Idle EXCEPT !.pc = "Getxattr_path", !.call = "Getxattr",
                                   !.node = n, !.xname = name]]
    /\ UNCHANGED <<disk, data, nodes, realPath, isDir, forgotten, xattrs, inMemoryXattr, flushers,
                   handles, last, budget, paging, rplock, nlock, xlock>>

\* (mutant) getRealPath returns without its RUnlock
GetxattrPathKeepsRLock(t) ==
    /\ th[t].pc = "Getxattr_path"
    /\ rplock[t] # 0
    /\ LET r == GetxattrAt(xattrs, realPath[th[t].node], th[t].xname)
       IN  th' = [th EXCEPT ![t] = [Done(t, "Getxattr", r[1]) EXCEPT
                                      !.node = th[t].node, !.xname = th[t].xname, !.xval = r[2]]]
    /\ UNCHANGED <<disk, data, nodes, realPath, isDir, forgotten, xattrs, inMemoryXattr, flushers,
                   handles, last, budget, paging, rplock, nlock, xlock>>

\* Node.Getxattr, lines 536-544: getRealPath returns (RUnlock), the lookup in
\* the store, and the deferred xlock.RUnlock
GetxattrPath(t) ==
    /\ th[t].pc = "Getxattr_path"
    /\ rplock[t] # 0
    /\ rplock' = [rplock EXCEPT ![t] = 0]
    /\ LET r == GetxattrAt(xattrs, realPath[th[t].node], th[t].xname)
       IN  th' = [th EXCEPT ![t] = [Done(t, "Getxattr", r[1]) EXCEPT
                                      !.node = th[t].node, !.xname = th[t].xname, !.xval = r[2]]]
    /\ UNCHANGED <<disk, data, nodes, realPath, isDir, forgotten, xattrs, inMemoryXattr, flushers,
                   handles, last, budget, paging, nlock, xlock>>

\* Node.Setxattr, line 600: n.fs.xlock.Lock()
SetxattrXLock(t, n, name, v) ==
    /\ th[t].pc = "idle"
    /\ n \in Live
    /\ ~emulationOff
    /\ xlock = "free"
    /\ ~xlockRLocked
    /\ xlock' = t
    /\ th' = [th EXCEPT ![t] = [Idle EXCEPT !.pc = "Setxattr_test", !.call = "Setxattr",
                                   !.node = n, !.xname = name, !.xval = v]]
    /\ UNCHANGED <<disk, data, nodes, realPath, isDir, forgotten, xattrs, inMemoryXattr, flushers,
                   handles, last, budget, paging, rplock, nlock>>

\* Node.Setxattr, line 602: getRealPath returns (RUnlock) and the test of
\* xattrs[path] against nil
SetxattrTest(t) ==
    /\ th[t].pc = "Setxattr_test"
    /\ rplock[t] # 0
    /\ rplock' = [rplock EXCEPT ![t] = 0]
    /\ th' = [th EXCEPT ![t].pc = IF xattrs[realPath[th[t].node]].nil THEN "Setxattr_make"
                                                                      ELSE "Setxattr_store"]
    /\ UNCHANGED <<disk, data, nodes, realPath, isDir, forgotten, xattrs, inMemoryXattr, flushers,
                   handles, last, budget, paging, nlock, xlock>>

\* ------------------------------------------------------- specifications
CloseErrors == {"nil", "EIO", "ErrClosed", "ErrInvalid"}
SyncErrors == {"nil", "EIO", "ErrClosed", "ErrInvalid"}
ListArgs == {0, 1}

RegistryCalls ==
    \/ Root
    \/ \E n \in NodeIds, name \in Names : Lookup(n, name)
    \/ \E n \in NodeIds, name \in Names : Create(n, name)
    \/ \E n \in NodeIds, name \in Names : Mkdir(n, name)
    \/ \E n \in NodeIds, name \in Names : Remove(n, name)
    \/ \E n \in NodeIds, newDir \in NodeIds, oldName \in Names, newName \in Names :
            Rename(n, oldName, newDir, newName)
    \/ \E n \in NodeIds : Forget(n)

XattrCalls ==
    \/ \E n \in NodeIds, name \in XNames : Getxattr(n, name)
    \/ \E n \in NodeIds, name \in XNames, v \in XValues : Setxattr(n, name, v)
    \/ \E n \in NodeIds, name \in XNames : Removexattr(n, name)
    \/ \E n \in NodeIds, position \in ListArgs, size \in ListArgs : Listxattr(n, position, size)

HandleCalls ==
    \/ \E n \in NodeIds : Open(n)
    \/ \E h \in HandleIds, e \in CloseErrors : Release(h, e)
    \/ \E h \in HandleIds, e \in SyncErrors : Flush(h, e)
    \/ \E n \in NodeIds, h \in {0} \cup HandleIds, e \in SyncErrors : Fsync(n, h, e)

\* the registry: Root, Lookup, Create, Mkdir, Remove, Rename, Forget, for
\* MaxCalls calls (the emulation flag matters to the xattr handlers alone)
Init == NewFS /\ inMemoryXattr /\ budget = MaxCalls
Next == RegistryCalls
Spec == Init /\ [][Next]_vars

\* the registry and the xattr store, for MaxCalls - 1 calls
InitXattr == NewFS /\ budget = MaxCalls - 1
NextXattr == RegistryCalls \/ XattrCalls
SpecXattr == InitXattr /\ [][NextXattr]_vars

\* the registry and the handles, for MaxCalls - 1 calls
InitHandles == NewFS /\ inMemoryXattr /\ budget = MaxCalls - 1
NextHandles == RegistryCalls \/ HandleCalls
SpecHandles == InitHandles /\ [][NextHandles]_vars

\* Listxattr paging: the root node, any attribute set over MaxListNames names
\* (or none ever set) under its path, and a client that pages through it
ListNames == 1..MaxListNames
InitList ==
    /\ disk = [p \in Paths |-> IF p = rootPath THEN "dir" ELSE "none"]
    /\ nodes = newNode(<<>>, rootPath, 1)
    /\ realPath = <<rootPath>>
    /\ isDir = <<TRUE>>
    /\ forgotten = {}
    /\ \E S \in SUBSET ListNames, isNil \in BOOLEAN :
          /\ isNil => S = {}
          /\ xattrs = [p \in Paths |-> IF p = rootPath
                                         THEN [nil |-> isNil, kv |-> {<<a, 1>> : a \in S}]
                                         ELSE NilMap]
    /\ inMemoryXattr = TRUE
    /\ flushers = <<{}>>
    /\ handles = <<>>
    /\ data = [p \in Paths |-> 0]
    /\ last = NoCall
    /\ budget = 0
    /\ paging = [acc |-> <<>>, done |-> FALSE]
    /\ th = [t \in Threads |-> Idle]
    /\ nlock = "free"
    /\ rplock = [t \in Threads |-> 0]
    /\ xlock = "free"
NextList == \E size \in 1..(MaxListNames + 1) : ListNextPage(1, size)
SpecList == InitList /\ [][NextList]_vars

\* directories and their handles: Root, Mkdir, Create, Open, Remove, Rename,
\* ReadDirAll and Release, for MaxDirCalls calls
InitDir == NewFS /\ inMemoryXattr /\ budget = MaxDirCalls
NextDir ==
    \/ Root
    \/ \E n \in NodeIds, name \in Names : Mkdir(n, name)
    \/ \E n \in NodeIds, name \in Names : Create(n, name)
    \/ \E n \in NodeIds : Open(n)
    \/ \E n \in NodeIds, name \in Names : Remove(n, name)
    \/ \E n \in NodeIds, oldName \in Names, newDir \in NodeIds, newName \in Names :
          Rename(n, oldName, newDir, newName)
    \/ \E h \in HandleIds, e \in CloseOutcomes : ReadDirAll(h, e)
    \/ \E h \in HandleIds, e \in CloseErrors : Release(h, e)
SpecDir == InitDir /\ [][NextDir]_vars

\* the bytes of files: on the mounted file system (NewFS and the Root call
\* that mounting makes), Create, Open, Write, Flush, Read, Rename and Attr,
\* for MaxDataCalls calls
InitData ==
    /\ disk = [p \in Paths |-> IF p = rootPath THEN "dir" ELSE "none"]
    /\ nodes = newNode(<<>>, rootPath, 1)
    /\ realPath = <<rootPath>>
    /\ isDir = <<TRUE>>
    /\ forgotten = {}
    /\ xattrs = [p \in Paths |-> NilMap]
    /\ inMemoryXattr = TRUE
    /\ flushers = <<{}>>
    /\ handles = <<>>
    /\ data = [p \in Paths |-> 0]
    /\ last = [Ret("Root", "nil") EXCEPT !.node = 1]
    /\ budget = MaxDataCalls
    /\ paging = [acc |-> <<>>, done |-> FALSE]
    /\ th = [t \in Threads |-> Idle]
    /\ nlock = "free"
    /\ rplock = [t \in Threads |-> 0]
    /\ xlock = "free"
NextData ==
    \/ \E n \in NodeIds, name \in Names : Create(n, name)
    \/ \E n \in NodeIds : Open(n)
    \/ \E h \in HandleIds, v \in DataValues : Write(h, v)
    \/ \E h \in HandleIds, e \in SyncErrors : Flush(h, e)
    \/ \E h \in HandleIds : Read(h)
    \/ \E n \in NodeIds, oldName \in Names, newDir \in NodeIds, newName \in Names :
          Rename(n, oldName, newDir, newName)
    \/ \E n \in NodeIds : Attr(n)
SpecData == InitData /\ [][NextData]_vars

\* the handlers that hand the error of a system call to translateError, and
\* the errors a system call can hand them (nil: none)
TranslatingOps == {"ReadDirAll", "Read", "Write", "Access", "Attr", "Lookup",
                   "Open", "Create", "Mkdir", "Setattr"}
OsErrors == {"nil", "ENOENT", "EEXIST", "ENOTEMPTY", "EACCES", "EPERM", "ENOTDIR",
             "EISDIR", "EIO", "EINVAL", "ENOSPC", "EOF", "ErrClosed"}

\* return translateError(err): what the handler op returns for the error err
returnTranslated(op, err) ==
    /\ last' = [Ret(op, translateError(err)) EXCEPT !.raw = err]
    /\ UNCHANGED <<disk, data, nodes, realPath, isDir, forgotten, xattrs, inMemoryXattr,
                   flushers, handles, budget, paging, rplock, th, nlock, xlock>>

InitErr == NewFS /\ inMemoryXattr /\ budget = 0
NextErr == \E op \in TranslatingOps, err \in OsErrors : returnTranslated(op, err)
SpecErr == InitErr /\ [][NextErr]_vars

\* concurrent registry calls: MaxSetup calls served alone, then one call on
\* each goroutine, interleaved at every shared access
RenameSteps(t) ==
    \/ \E n \in NodeIds, newDir \in NodeIds, oldName \in Names, newName \in Names :
            RenameNp(t, n, oldName, newDir, newName)
    \/ RenameOp(t)
    \/ RenameOs(t)
    \/ RenameMoveAllxattrs(t)
    \/ RenameNodeRenamed(t)
    \/ RenameUpdateRealPath(t)
    \/ RenameUnlock(t)

InitConc == NewFS /\ inMemoryXattr /\ budget = MaxSetup
NextConc ==
    \/ Root
    \/ \E n \in NodeIds, name \in Names : Lookup(n, name)
    \/ \E n \in NodeIds, name \in Names : Create(n, name)
    \/ \E n \in NodeIds, name \in Names : Mkdir(n, name)
    \/ \E t \in Threads : RenameSteps(t)
    \/ \E t \in Threads : RootCall(t)
    \/ \E t \in Threads, n \in NodeIds, name \in Names : LookupPath(t, n, name)
    \/ \E t \in Threads : LookupStat(t)
    \/ \E t \in Threads, n \in NodeIds, name \in Names : CreatePath(t, n, name)
    \/ \E t \in Threads : CreateOpen(t)
    \/ \E t \in Threads : CreateNode(t)
    \/ \E t \in Threads, n \in NodeIds, name \in Names : MkdirPath(t, n, name)
    \/ \E t \in Threads : MkdirOs(t)
    \/ \E t \in Threads : FSnewNode(t)
    \/ \E t \in Threads, n \in NodeIds : ForgetCall(t, n)
SpecConc == InitConc /\ [][NextConc]_vars

\* concurrent handle calls: MaxHandleSetup calls served alone (Root, Create,
\* Open), then one call on each goroutine among Rename, Open, Release, Fsync
InitConcHandles == NewFS /\ inMemoryXattr /\ budget = MaxHandleSetup
NextConcHandles ==
    \/ Root
    \/ \E n \in NodeIds, name \in Names : Create(n, name)
    \/ \E n \in NodeIds : Open(n)
    \/ \E t \in Threads : RenameSteps(t)
    \/ \E t \in Threads, n \in NodeIds : OpenRLock(t, n)
    \/ \E t \in Threads : OpenPath(t)
    \/ \E t \in Threads : OpenFile(t)
    \/ \E t \in Threads : OpenRemember(t)
    \/ \E t \in Threads, h \in HandleIds : ReleaseForget(t, h)
    \/ \E t \in Threads, e \in CloseErrors : ReleaseClose(t, e)
    \/ \E t \in Threads, n \in NodeIds, h \in {0} \cup HandleIds : FsyncRLock(t, n, h)
    \/ \E t \in Threads, e \in SyncErrors : FsyncSync(t, e)
SpecConcHandles == InitConcHandles /\ [][NextConcHandles]_vars

\* a Rename on one goroutine against an attribute call on the other, after
\* MaxXattrSetup calls served alone
InitConcXattr == NewFS /\ inMemoryXattr /\ budget = MaxXattrSetup
NextConcXattr ==
    \/ Root
    \/ \E n \in NodeIds, name \in Names : Create(n, name)
    \/ \E n \in NodeIds, name \in XNames, v \in XValues : Setxattr(n, name, v)
    \/ RenameSteps("t1")
    \/ \E n \in NodeIds, name \in XNames : GetxattrCall("t2", n, name)
    \/ \E n \in NodeIds, position \in ListArgs, size \in ListArgs :
            ListxattrCall("t2", n, position, size)
    \/ \E n \in NodeIds, name \in XNames : RemovexattrCall("t2", n, name)
    \/ \E n \in NodeIds, name \in XNames, v \in XValues : SetxattrLock("t2", n, name, v)
    \/ SetxattrMake("t2")
    \/ SetxattrStore("t2")
SpecConcXattr == InitConcXattr /\ [][NextConcXattr]_vars

\* the locks: on a mounted filesystem whose root holds one file, created and
\* still open, one call on each goroutine among Rename, Forget, Open, Release,
\* Fsync, Getxattr and Setxattr; a lock taken while another is held is a
\* step of its own, and a
\* goroutine that can take a step eventually takes one (every Lock is
\* eventually granted once the lock is free, every system call returns)
LockSteps(t) ==
    \/ \E n \in NodeIds, newDir \in NodeIds, oldName \in Names, newName \in Names :
            RenameNp(t, n, oldName, newDir, newName)
    \/ RenameOp(t)
    \/ RenameOs(t)
    \/ RenameMoveAllxattrs(t)
    \/ RenameNodeRenamed(t)
    \/ updateRealPathLock(t)
    \/ th[t].pc = "Rename_wlock" /\ RenameUpdateRealPath(t)
    \/ RenameUnlock(t)
    \/ \E n \in NodeIds : ForgetCall(t, n)
    \/ \E n \in NodeIds : OpenRLock(t, n)
    \/ OpenPath(t)
    \/ OpenFile(t)
    \/ OpenRemember(t)
    \/ \E h \in HandleIds : ReleaseForget(t, h)
    \/ \E e \in CloseErrors : ReleaseClose(t, e)
    \/ \E n \in NodeIds, h \in {0} \cup HandleIds : FsyncRLock(t, n, h)
    \/ \E e \in SyncErrors : FsyncSync(t, e)
    \/ \E n \in NodeIds : GetxattrRLock(t, n, 1)
    \/ \E n \in NodeIds : SetxattrXLock(t, n, 1, 1)
    \/ getRealPathRLock(t)
    \/ GetxattrPath(t)
    \/ SetxattrTest(t)
    \/ rplock[t] # 0 /\ SetxattrMake(t)
    \/ rplock[t] # 0 /\ SetxattrStore(t)

\* the state after NewFS, Root() and Create(root, "a")
InitLocks ==
    /\ disk = [p \in Paths |-> IF p = rootPath THEN "dir"
                              ELSE IF p = <<"a">> THEN "file" ELSE "none"]
    /\ nodes = newNode(newNode(<<>>, rootPath, 1), <<"a">>, 2)
    /\ realPath = <<rootPath, <<"a">> >>
    /\ isDir = <<TRUE, FALSE>>
    /\ forgotten = {}
    /\ xattrs = [p \in Paths |-> NilMap]
    /\ inMemoryXattr = TRUE
    /\ flushers = <<{}, {1}>>
    /\ handles = <<NewHandle(2, <<"a">>, FALSE)>>
    /\ data = [p \in Paths |-> 0]
    /\ last = [Ret("Create", "nil") EXCEPT !.node = 2, !.from = <<"a">>, !.handle = 1]
    /\ budget = 0
    /\ paging = [acc |-> <<>>, done |-> FALSE]
    /\ th = [t \in Threads |-> Idle]
    /\ nlock = "free"
    /\ rplock = [t \in Threads |-> 0]
    /\ xlock = "free"
NextLocks == \E t \in Threads : LockSteps(t)
SpecLocks == InitLocks /\ [][NextLocks]_vars /\ \A t \in Threads : WF_vars(LockSteps(t))

\* ===================================================================== claims

\* what the claims speak of
KeysOf(n) == {p \in DOMAIN nodes : n \in Range(nodes[p])}
Renaming(t) == th[t].call = "Rename"
OntoItself(t) == th[t].pc \notin {"Rename_op", "Rename_os"} /\ th[t].op = th[t].np
Without(s, n) == SelectSeq(s, LAMBDA m : m # n)
OwnedHandles(n) == {h \in 1..Len(handles) : handles[h].node = n /\ handles[h].f = "open"}
PagedNames == {e[1] : e \in xattrs[rootPath].kv}

\* C1 - alias consistency: after a Rename whose underlying rename succeeded,
\* every node that was registered under the old path reports the new path.
C1_AliasConsistency ==
    (last.op = "Rename" /\ last.res = "nil") =>
        \A n \in last.moved : realPath[n] = last.to

\* two aliases of one path were renamed to another path
C1_Witness ==
    /\ last.op = "Rename" /\ last.res = "nil"
    /\ last.from # last.to
    /\ Cardinality(last.moved) >= 2
    /\ \A n \in last.moved : realPath[n] = last.to

\* C2 - rename xattr invariant (stated for P # P'): after Rename(P, P')
\* succeeded with emulation enabled, Getxattr against P' returns exactly what
\* was stored under P before, and Getxattr against P returns NoData.
C2_RenameMovesXattrs ==
    [][(last'.op = "Rename" /\ last'.res = "nil" /\ last'.from # last'.to /\ inMemoryXattr) =>
          \A name \in XNames :
              /\ GetxattrAt(xattrs', last'.to, name) = GetxattrAt(xattrs, last'.from, name)
              /\ GetxattrAt(xattrs', last'.from, name)[1] = "fuse.ENODATA"]_vars

\* C3 - registry invariant: whenever no critical section of the registry is in
\* progress, during any interleaving of Root, Lookup, Create, Mkdir, Rename
\* and Forget, every node held in the registry is listed under the key equal
\* to its own path, and under no other key.
C3_RegistryInvariant ==
    nlock = "free" =>
        \A n \in Constructed : KeysOf(n) \subseteq {realPath[n]}

\* a Rename that moved a node has returned while another goroutine's Lookup,
\* Create, Mkdir or Root registered a node, and both nodes are in the registry
C3_Witness ==
    /\ nlock = "free"
    /\ \E t \in Threads, u \in Threads :
          /\ th[t].pc = "done" /\ th[t].call = "Rename" /\ th[t].res = "nil"
          /\ th[t].op # th[t].np
          /\ \E n \in th[t].moved : KeysOf(n) = {th[t].np}
          /\ th[u].pc = "done" /\ th[u].call \in {"Lookup", "Create", "Mkdir", "Root"}
          /\ th[u].res = "nil"
          /\ KeysOf(th[u].node) = {realPath[th[u].node]}

\* C4 - rename ordering and failure: when the underlying rename fails, Rename
\* returns the error and the xattr store, the registry and every node's path
\* are unchanged (the migrations run only after a successful rename).
C4_FailedRenameChangesNothing ==
    [][(last'.op = "Rename" /\ last'.res # "nil") =>
          (xattrs' = xattrs /\ nodes' = nodes /\ realPath' = realPath /\ disk' = disk)]_vars

\* a rename failed although nodes and attributes were there to migrate
C4_Witness ==
    /\ last.op = "Rename" /\ last.res # "nil"
    /\ last.moved # {}
    /\ last.val > 0

\* C5 - xattr migration is atomic with respect to a concurrent attribute call
\* through a node registered under the renamed path P (P # P'): once the
\* Rename and a Setxattr have both returned, Getxattr through that node
\* returns the value set; and a Getxattr of an attribute that P had before
\* the rename (and P' has after it) does not return NoData.
C5_XattrMigrationAtomic ==
    \A t \in Threads, u \in Threads :
        ( /\ th[t].pc = "done" /\ th[t].call = "Rename" /\ th[t].res = "nil"
          /\ th[t].op # th[t].np
          /\ th[u].pc = "done"
          /\ th[u].node \in th[t].moved )
        => /\ th[u].call = "Setxattr" =>
                /\ th[u].res = "nil"
                /\ GetxattrAt(xattrs, realPath[th[u].node], th[u].xname) = <<"nil", th[u].xval>>
           /\ (th[u].call = "Getxattr" /\ HasName(th[t].had, th[u].xname)) =>
                /\ th[u].res = "nil"
                /\ th[u].xval = ValueOf(th[t].had, th[u].xname)

\* C6 - Forget racing with rename (P # P'): while a Rename and a Forget(n) are
\* served concurrently, n is in exactly one bucket at every instant the
\* registry lock is free until Forget has run, Forget finds it there, and
\* once both calls have returned n is listed under no key.
C6_ForgetRacesRename ==
    (\A t \in Threads : Renaming(t) => ~OntoItself(t)) =>
        /\ \A t \in Threads, u \in Threads :
              (Renaming(t) /\ th[u].call = "Forget") =>
                  /\ th[u].found
                  /\ (nlock = "free" /\ th[t].pc = "done") => KeysOf(th[u].node) = {}
        /\ \A n \in Live :
              ( /\ nlock = "free"
                /\ \E t \in Threads : Renaming(t)
                /\ \A u \in Threads : th[u].call \in {"Rename", "Forget", "none"} )
              => Cardinality(KeysOf(n)) = 1

\* the Rename moved n's bucket before Forget(n) ran, and both have returned
C6_Witness ==
    \E t \in Threads, u \in Threads :
        /\ th[t].pc = "done" /\ th[t].call = "Rename" /\ th[t].res = "nil"
        /\ th[t].op # th[t].np
        /\ th[u].pc = "done" /\ th[u].call = "Forget"
        /\ th[u].node \in th[t].moved
        /\ th[u].op = th[t].np
        /\ th[u].found
        /\ KeysOf(th[u].node) = {}

\* C7 - Forget postcondition and frame: Forget(n) removes n from the list under
\* its path and deletes the key when the list becomes empty; the other nodes
\* keep their membership and order, the other keys are unchanged; when n is
\* absent already the registry does not change at all.
C7_ForgetFrame ==
    [][last'.op = "Forget" =>
          LET n == last'.node
              key == realPath[n]
              present == n \in Range(Bucket(nodes, key))
          IN  /\ realPath' = realPath
              /\ present =>
                    /\ \A p \in DOMAIN nodes' : n \notin Range(nodes'[p])
                    /\ DOMAIN nodes' = IF Without(nodes[key], n) = <<>>
                                         THEN DOMAIN nodes \ {key} ELSE DOMAIN nodes
                    /\ \A p \in DOMAIN nodes' : nodes'[p] = Without(nodes[p], n)
              /\ ~present => nodes' = nodes]_vars

\* C8 - Fsync and the handle set: a node owns exactly the handles opened on it
\* (by Open, or by the Create that made it) and not yet released; Fsync fails
\* with IOError exactly when it owns none, and otherwise returns the result
\* of the sync Flush would do on one of the owned handles.
C8_FsyncHandleSet ==
    /\ \A n \in Constructed : flushers[n] = OwnedHandles(n)
    /\ last.op = "Fsync" =>
          /\ last.res = "fuse.EIO" <=> OwnedHandles(last.node) = {}
          /\ OwnedHandles(last.node) # {} =>
                /\ last.handle \in OwnedHandles(last.node)
                /\ last.res \in SyncOutcomes(handles[last.handle].f)

\* Fsync failed with IOError on a node whose only handle had been released
C8_Witness ==
    /\ last.op = "Fsync" /\ last.res = "fuse.EIO"
    /\ \E h \in 1..Len(handles) : handles[h].node = last.node /\ handles[h].f = "closed"

\* C9 - Remove clears attributes: after a successful Remove of P, Getxattr of
\* every name against P yields NoData; after a failed Remove the attributes
\* are unchanged.
C9_RemoveClearsXattrs ==
    [][last'.op = "Remove" =>
          IF last'.res = "nil"
            THEN \A name \in XNames :
                    GetxattrAt(xattrs', last'.from, name) = <<"fuse.ENODATA", 0>>
            ELSE xattrs' = xattrs]_vars

\* a path that had attributes was removed
C9_Witness ==
    /\ last.op = "Remove" /\ last.res = "nil"
    /\ last.val > 0
    /\ xattrs[last.from].nil

\* C10 - xattr pagination: Listxattr calls that start at offset 0 and advance by
\* the number of names returned enumerate the names in ascending order, each
\* once, none left out; a call at or beyond the total returns nothing.
C10_Pagination ==
    /\ \A i, j \in 1..Len(paging.acc) : i < j => paging.acc[i] < paging.acc[j]
    /\ Range(paging.acc) \subseteq PagedNames
    /\ \A a \in PagedNames \ Range(paging.acc), b \in Range(paging.acc) : b < a
    /\ paging.done => Range(paging.acc) = PagedNames
    /\ (last.op = "Listxattr" /\ last.name >= Cardinality(PagedNames)) => last.names = <<>>
    /\ (last.op = "Listxattr" /\ last.name < Cardinality(PagedNames)) => last.names # <<>>

\* a set of three or more names was enumerated to its end in pages shorter
\* than the set
C10_Witness ==
    /\ paging.done
    /\ Len(paging.acc) >= 3
    /\ last.op = "Listxattr" /\ last.name = Len(paging.acc) /\ last.val < Len(paging.acc)

\* the four attribute handlers
XattrOps == {"Getxattr", "Listxattr", "Setxattr", "Removexattr"}

\* C12: with the emulation switched off, Getxattr, Listxattr, Setxattr and
\* Removexattr each fail with ENOTSUP and leave the attribute store as it was,
\* and no call ever changes the switch.
C12_DisabledXattr ==
    [][/\ inMemoryXattr' = inMemoryXattr
       /\ (~inMemoryXattr /\ budget' < budget /\ last'.op \in XattrOps) =>
              (last'.res = "fuse.ENOTSUP" /\ xattrs' = xattrs)]_vars

C12_Witness ==
    ~inMemoryXattr /\ last.op = "Setxattr" /\ last.res = "fuse.ENOTSUP"

\* the entries of a map that are not about the name
Others(m, name) == {e \in m.kv : e[1] # name}

\* C13: with the emulation on, Getxattr and Removexattr fail with ENODATA
\* exactly when the path of the node holds no value for the name; Getxattr
\* returns the stored value; after Setxattr(name, v) the path holds v for the
\* name; after a successful Removexattr the path holds no value for the name
\* (so a following Getxattr or Removexattr fails with ENODATA) and every other
\* attribute, of this and of every other path, is as before.
C13_XattrPresence ==
    [][(inMemoryXattr /\ budget' < budget) =>
          LET p == last'.from
              a == last'.name
              absent == \A e \in xattrs[p].kv : e[1] # a
          IN  /\ last'.op = "Getxattr" =>
                    /\ last'.res \in {"nil", "fuse.ENODATA"}
                    /\ (last'.res = "fuse.ENODATA") <=> absent
                    /\ last'.res = "nil" => <<a, last'.val>> \in xattrs[p].kv
              /\ last'.op = "Removexattr" =>
                    /\ last'.res \in {"nil", "fuse.ENODATA"}
                    /\ (last'.res = "fuse.ENODATA") <=> absent
                    /\ last'.res = "nil" => \A e \in xattrs'[p].kv : e[1] # a
                    /\ Others(xattrs'[p], a) = Others(xattrs[p], a)
                    /\ \A q \in Paths \ {p} : xattrs'[q] = xattrs[q]
              /\ last'.op = "Setxattr" =>
                    /\ last'.res = "nil"
                    /\ {e \in xattrs'[p].kv : e[1] = a} = {<<a, last'.val>>}]_vars

C13_Witness ==
    /\ inMemoryXattr
    /\ last.op = "Removexattr" /\ last.res = "nil"
    /\ xattrs[last.from].kv # {}

\* the number of times node n is listed under key q
Listed(reg, q, n) == Cardinality({i \in 1..Len(Bucket(reg, q)) : Bucket(reg, q)[i] = n})

\* C15: Lookup on a node that is no directory fails with ENOTSUP; on a
\* directory it stats the node's path joined with the name; when the stat
\* succeeds exactly one node is constructed and registered, once, under the
\* joined path, its path is the joined path and its directory flag is that of
\* the entry found; when the stat fails the translated error is returned; a
\* failed Lookup leaves the registry and the nodes as they were.
C15_Lookup ==
    [][(budget' < budget /\ last'.op = "Lookup") =>
          LET n == last'.parent
              p == last'.from
              nn == last'.node
          IN  /\ ~isDir[n] => last'.res = "fuse.ENOTSUP"
              /\ isDir[n] =>
                    /\ Len(p) = Len(realPath[n]) + 1
                    /\ SubSeq(p, 1, Len(realPath[n])) = realPath[n]
                    /\ (last'.res = "nil") <=> (disk[p] # "none")
                    /\ last'.res \in {"nil", "fuse.ENOENT", "ENOTDIR"}
              /\ last'.res = "nil" =>
                    /\ Len(realPath') = Len(realPath) + 1
                    /\ nn = Len(realPath')
                    /\ realPath'[nn] = p
                    /\ isDir'[nn] = (disk[p] = "dir")
                    /\ \A m \in 1..Len(realPath) :
                          realPath'[m] = realPath[m] /\ isDir'[m] = isDir[m]
                    /\ Listed(nodes', p, nn) = 1
                    /\ \A q \in Paths :
                          /\ q # p => Listed(nodes', q, nn) = 0
                          /\ \A m \in 1..Len(realPath) : Listed(nodes', q, m) = Listed(nodes, q, m)
              /\ last'.res # "nil" =>
                    nodes' = nodes /\ realPath' = realPath /\ isDir' = isDir]_vars

C15_Witness ==
    /\ last.op = "Lookup" /\ last.res = "nil"
    /\ ~isDir[last.node]
    /\ realPath[last.node] = last.from

\* the kinds of error os.IsNotExist, os.IsExist and os.IsPermission tell apart
NotFoundKind == {"ENOENT"}
AlreadyExistsKind == {"EEXIST", "ENOTEMPTY"}
PermissionKind == {"EACCES", "EPERM"}

\* C16: translateError returns fuse.ENOENT for a not-found error, fuse.EEXIST
\* for an already-exists error, fuse.EPERM for a permission error, and every
\* other error, and no error, as it is; an error never becomes no error.
C16_ErrorTranslator ==
    last.op \in TranslatingOps =>
        /\ last.raw \in NotFoundKind => last.res = "fuse.ENOENT"
        /\ last.raw \in AlreadyExistsKind => last.res = "fuse.EEXIST"
        /\ last.raw \in PermissionKind => last.res = "fuse.EPERM"
        /\ last.raw \notin NotFoundKind \cup AlreadyExistsKind \cup PermissionKind =>
              last.res = last.raw
        /\ last.raw # "nil" => last.res # "nil"

C16_Witness ==
    last.op = "Read" /\ last.raw = "EACCES" /\ last.res = "fuse.EPERM"

\* C19: after a successful Rename of a directory P to another path P', every
\* node registered under the path of an entry below P reports the path below
\* P' to which the entry went and is registered there, the attributes stored
\* under the old path are stored under the new one, and neither the registry
\* nor the attribute store keeps anything under the old path.
C19_DirectoryRename ==
    [][(/\ budget' < budget
        /\ last'.op = "Rename" /\ last'.res = "nil"
        /\ last'.from # last'.to
        /\ disk[last'.from] = "dir") =>
          \A q \in Paths :
              (q # last'.from /\ IsPrefix(last'.from, q) /\ disk[q] # "none") =>
                  LET q2 == last'.to \o Rest(last'.from, q)
                  IN  /\ \A n \in Range(Bucket(nodes, q)) :
                            realPath'[n] = q2 /\ n \in Range(Bucket(nodes', q2))
                      /\ xattrs[q].kv \subseteq xattrs'[q2].kv
                      /\ Bucket(nodes', q) = <<>>
                      /\ xattrs'[q].kv = {}]_vars

C17_HandleResource ==
    \A h \in 1..Len(handles) : InUse(h) => handles[h].f = "open"

\* the Handles in use that hold the same named file open as Handle h
SameFile(h) ==
    {w \in 1..Len(handles) :
        /\ InUse(w) /\ handles[w].f = "open"
        /\ handles[w].at # Unlinked /\ handles[w].at = handles[h].at}
Writers(h) == {w \in SameFile(h) : handles[w].wrote # 0}
Registered(n) == n \in Range(Bucket(nodes, realPath[n]))

\* C14: a Read at offset 0 returns the bytes written at offset 0 to the same
\* file, through the same Handle or another one, whatever Flush and Rename
\* calls came in between (one Handle having written to the file); an Open of
\* a registered node whose file a Handle holds open succeeds and opens that
\* same file, renamed or not; after a successful Rename of P to another path
\* nothing is at P, the nodes of P report the new path and the open files
\* of P are at the new path; Attr fails with ENOENT exactly when nothing is at
\* the node's path.
C14_DataSurvivesRename ==
    [][budget' < budget =>
          /\ (last'.op = "Read" /\ last'.res = "nil") =>
                \A w \in Writers(last'.handle) :
                    Writers(last'.handle) = {w} => last'.val = handles[w].wrote
          /\ last'.op = "Open" =>
                \A h \in 1..Len(handles) :
                    (/\ Registered(last'.node)
                     /\ handles[h].node = last'.node
                     /\ h \in SameFile(h)) =>
                        /\ last'.res = "nil"
                        /\ handles'[last'.handle].at = handles[h].at
          /\ (last'.op = "Rename" /\ last'.res = "nil" /\ last'.from # last'.to) =>
                /\ disk'[last'.from] = "none"
                /\ \A n \in last'.moved : realPath'[n] = last'.to
                /\ \A h \in 1..Len(handles) :
                      handles[h].at = last'.from => handles'[h].at = last'.to
                /\ data'[last'.to] = data[last'.from]
          /\ last'.op = "Attr" =>
                /\ disk[last'.from] # "none" => last'.res = "nil"
                /\ (disk[last'.from] = "none" /\ ParentIsDir(disk, last'.from)) =>
                      last'.res = "fuse.ENOENT"]_vars

C14_Witness ==
    /\ last.op = "Read" /\ last.res = "nil"
    /\ \E w \in Writers(last.handle) :
          /\ w # last.handle
          /\ handles[w].wrote = last.val
          /\ handles[w].name # handles[w].at
          /\ handles[last.handle].name = handles[w].at
          /\ handles[last.handle].node = handles[w].node

\* the goroutines serving, or having served, a call of the kind
Serving(call) == {t \in Threads : th[t].call = call}

\* C18: Release takes the Handle out of its Node's handle set before it closes
\* the file: while the file is being closed, and after Release has returned,
\* the Handle is not in the set; a closed file belongs to no Handle of a set;
\* and in every interleaving the file a Fsync is syncing is open, so no
\* Fsync returns the error of a closed file.
C18_ReleaseOrdering ==
    /\ \A t \in Serving("Release") :
          th[t].pc \in {"Release_close", "done"} => th[t].h \notin flushers[th[t].node]
    /\ \A h \in 1..Len(handles) :
          handles[h].f = "closed" => h \notin flushers[handles[h].node]
    /\ \A t \in Serving("Fsync") :
          /\ th[t].pc = "Fsync_sync" => handles[th[t].h].f = "open"
          /\ th[t].pc = "done" => th[t].res # "ErrClosed"

C18_Witness ==
    \E t \in Serving("Release"), u \in Serving("Fsync") :
        /\ th[t].pc = "done" /\ th[u].pc = "done"
        /\ th[u].h = th[t].h
        /\ th[u].res = "nil"

\* the places where a goroutine is in a call of the underlying filesystem:
\* stat, open, mkdir, rename, sync, close
SyscallPcs == {"Lookup_stat", "Create_open", "Mkdir_os", "Rename_os", "Open_file",
               "Fsync_sync", "Release_close"}

\* C20: a goroutine that is in a call of the underlying filesystem holds
\* neither the registry lock nor the path lock of any node.
C20_NoLockAcrossIO ==
    \A t \in Threads :
        th[t].pc \in SyscallPcs => (nlock # t /\ rplock[t] = 0)

C20_Witness ==
    \E t \in Threads, u \in Threads :
        /\ th[t].pc = "Open_file"
        /\ nlock = u
        /\ th[u].pc = "Rename_loop"

\* the places of the registry where node n is listed
Listings(n) == {e \in Paths \X (1..(2 * MaxNodes)) :
                   e[1] \in DOMAIN nodes /\ e[2] <= Len(nodes[e[1]]) /\ nodes[e[1]][e[2]] = n}

\* C22 - live nodes stay registered: after any sequence of Root, Lookup,
\* Create, Mkdir, Rename (old path equal to the new path and an old path with
\* no registered node included) and Forget, every node that was registered
\* and has not been forgotten is listed in the registry exactly once, and no
\* registry key maps to an empty list.
C22_LiveNodesRegistered ==
    /\ \A n \in Live : Cardinality(Listings(n)) = 1
    /\ \A p \in DOMAIN nodes : nodes[p] # <<>>

\* what a goroutine holds, and whom it waits for
Busy(t) == th[t].pc \notin {"idle", "done"}
HoldsLock(t) ==
    \/ nlock = t
    \/ xlock = t
    \/ rplock[t] # 0
    \/ th[t].pc \in {"Getxattr_path", "Fsync_sync"}
WaitsFor(t, u) ==
    /\ t # u
    /\ \/ th[t].pc \in {"Rename_nodes", "newNode"} /\ nlock = u
       \/ th[t].pc = "Rename_xattrs" /\ (xlock = u \/ th[u].pc = "Getxattr_path")
       \/ th[t].pc = "Rename_wlock" /\ rplock[u] = Head(th[t].todo)
       \/ /\ th[t].pc \in {"Getxattr_path", "Setxattr_test", "Setxattr_make", "Setxattr_store"}
          /\ rplock[t] = 0
          /\ th[u].pc = "Rename_wlock" /\ Head(th[u].todo) = th[t].node
       \/ th[t].pc = "Open_remember" /\ th[u].pc = "Fsync_sync" /\ th[u].node = th[t].node

\* C21 - deadlock freedom: in every interleaving the four lock kinds (nlock,
\* a node's rpLock, a node's handle-set lock, xlock) are never waited for in
\* a cycle, a goroutine that serves no call holds no lock, and every call
\* that started returns with all its locks released, given that each system
\* call returns and each lock that is free is eventually granted.
C21_DeadlockFreedom ==
    /\ [](\A t \in Threads, u \in Threads : ~(WaitsFor(t, u) /\ WaitsFor(u, t)))
    /\ [](\A t \in Threads : ~Busy(t) => ~HoldsLock(t))
    /\ \A t \in Threads : Busy(t) ~> (th[t].pc = "done" /\ ~HoldsLock(t))

\* nodeRenamed, holding nlock, waits for the rpLock of a node while Setxattr,
\* holding xlock, is inside getRealPath on that node
C21_Witness ==
    \E t \in Threads, u \in Threads :
        /\ nlock = t /\ th[t].pc = "Rename_wlock"
        /\ xlock = u /\ rplock[u] = Head(th[t].todo)
        /\ WaitsFor(t, u)

====
